---- MODULE Spec2Model ----
(***************************************************************************)
(* Pydoro (src/pydoro.py): the daily-activity ledger, the countdown engine *)
(* and the Pomodoro cycle scheduler, as a state machine.                   *)
(*                                                                         *)
(* Time.  The clock (datetime.datetime.now()) is counted in polling        *)
(* slices: one unit is the time.sleep(0.1) of the key-polling loop, so one *)
(* second is SlicesPerTick units and a timedelta's total_seconds() is      *)
(* units / UnitsPerSecond.                                                 *)
(***************************************************************************)
EXTENDS Integers, Sequences, FiniteSets, TLC

\* ------------------------------------------------------------------ bounds
\* The clock of the ledger specification stops advancing at MaxClock units.
MaxClock == 32
\* At most MaxChanges calls of change_current_daily_activity that open a segment.
MaxChanges == 4

\* --------------------------------------------------------- program constants
\* for _ in range(10): ten polling slices of 0.1 s make one tick of one second.
SlicesPerTick == 10
UnitsPerSecond == SlicesPerTick
\* Python's None, for a category and for a timestamp.
NoneCat == "None"
NoneTime == -1
\* main's elapsed_minutes_simple before run_simple_timer has returned.
NotReturned == -1

DEFAULT_DAILY_CATEGORIES ==
    << "Estudio", "Desayuno", "Trabajo", "Almuerzo", "Siesta",
       "Ejercicio", "Ducha", "Lectura", "Cena", "Otros" >>

\* The keys of total_specific_category_times (lines 88-95).
SUBCATEGORIES == {"Programación", "Matemáticas", "Inclub", "Vegenanito", "Manga", "Libro"}

\* SPECIFIC_SUBCATEGORY_MAPPING[...]['subcats'] (lines 108-112).
SPECIFIC_SUBCATEGORY_MAPPING ==
    [c \in {"Estudio", "Trabajo", "Lectura"} |->
        CASE c = "Estudio" -> << "Programación", "Matemáticas" >>
          [] c = "Trabajo" -> << "Inclub", "Vegenanito" >>
          [] c = "Lectura" -> << "Manga", "Libro" >>]

\* The answers typed at the category prompt that the model draws from:
\* 0 (cancel), three valid options and one out of range.
CategoryChoices == {0, 1, 2, 3, 11}
\* The time that passes between two operations: a sub-second gap, a gap of
\* exactly one second, and a longer one.
ClockSteps == {4, 10, 13}

VARIABLES
    now,                      \* the clock, in units
    pc,                       \* where the program stands
    daily_activity_log,       \* sequence of closed segments
    current_daily_activity,   \* category or NoneCat
    last_activity_start_time, \* units or NoneTime
    total_specific_category_times, \* subcategory -> minutes
    total_pomodoros_session,  \* main's session totals
    total_short_breaks_session,
    total_long_breaks_session,
    cfg,                      \* run_pomodoro's work/break minutes and num_cycles
    cycle_i,                  \* run_pomodoro's loop variable i
    current_set_pomodoros,
    current_set_short_breaks,
    current_set_long_breaks,
    phase_name,               \* countdown_period's arguments and locals
    duration_seconds,
    current_seconds,
    start_time_phase,
    is_paused,
    elapsed_seconds,          \* countdown_period's result
    outcome,
    first_set_time,           \* history: the clock at the first category set
    discarded_units,          \* history: total duration of the discarded fragments
    n_changes,                \* history: segments opened so far
    unpaused_ticks,           \* history: ticks of the phase that ended with the pause flag clear
    n_toggles,                \* history: pause toggles of the run
    n_paused_ticks,           \* history: whole ticks spent paused in the run
    accumulated_times,        \* show_daily_activity_summary's accumulated_times while shown
    completed_phases,         \* history: phases of the run that returned 'completed', by name
    started_phases,           \* history: countdown_period calls of the run, by phase name
    current_elapsed_seconds,  \* run_simple_timer's counter
    elapsed_minutes_simple,   \* main's elapsed_minutes_simple: what run_simple_timer returned
    measured_at,              \* history: the clock when the phase's elapsed time was read
    menu_choice,              \* main's choice: the text typed at the menu prompt
    last_op                   \* history: the operation that acted last

ledgerVars == << daily_activity_log, current_daily_activity, last_activity_start_time >>
ledgerHistory == << first_set_time, discarded_units, n_changes >>
sessionVars == << total_pomodoros_session, total_short_breaks_session, total_long_breaks_session >>
schedVars == << cfg, cycle_i, current_set_pomodoros, current_set_short_breaks, current_set_long_breaks >>
phaseVars == << phase_name, duration_seconds, current_seconds, start_time_phase, is_paused >>
resultVars == << elapsed_seconds, outcome >>
phaseHistory == << unpaused_ticks, n_toggles, n_paused_ticks, measured_at >>
simpleVars == << current_elapsed_seconds, elapsed_minutes_simple >>
timerVars == << total_specific_category_times, sessionVars, schedVars, phaseVars,
                resultVars, phaseHistory, completed_phases, started_phases, simpleVars >>
vars == << now, pc, ledgerVars, ledgerHistory, accumulated_times, timerVars, menu_choice, last_op >>

\* ------------------------------------------------ change_current_daily_activity
\* (current_time - last_activity_start_time).total_seconds(), in units.
DurationUnits(start, t) == t - start

\* Mutant: any fragment of positive length is logged.
IsLoggable_AnyPositive(duration) == duration > 0

\* if duration_seconds >= 1.0
IsLoggable(duration) == duration >= 1 * UnitsPerSecond

\* Mutant: the record's start is the closing time.
SegmentRecord_StartIsEnd(cat, start, t) ==
    [category |-> cat, start |-> t, end |-> t, duration |-> DurationUnits(start, t)]

\* The dict appended to daily_activity_log.
SegmentRecord(cat, start, t) ==
    [category |-> cat, start |-> start, end |-> t, duration |-> DurationUnits(start, t)]

\* Mutant: stopping (None) does not close the open segment.
ClosesSegment_OnlyOnSwitch(new, cur, start) ==
    /\ cur # NoneCat
    /\ start # NoneTime
    /\ new # cur
    /\ new # NoneCat

\* The guard of the logging branch (lines 709-710).
ClosesSegment(new, cur, start) ==
    /\ cur # NoneCat
    /\ start # NoneTime
    /\ (new # cur \/ new = NoneCat)

\* Mutant: the new record replaces the log instead of being appended to it.
LogAfterChange_Overwrite(new, log, cur, start, t) ==
    IF cur # NoneCat /\ start # NoneTime /\ (new # cur \/ new = NoneCat)
       /\ t - start >= UnitsPerSecond
    THEN << [category |-> cur, start |-> start, end |-> t, duration |-> t - start] >>
    ELSE log

LogAfterChange(new, log, cur, start, t) ==
    IF ClosesSegment(new, cur, start) /\ IsLoggable(DurationUnits(start, t))
    THEN Append(log, SegmentRecord(cur, start, t))
    ELSE log

\* Mutant: stopping (None) leaves the category set.
CurrentAfterChange_NoClear(new, cur) ==
    IF new # NoneCat /\ new # cur THEN new ELSE cur

CurrentAfterChange(new, cur) ==
    IF new # NoneCat /\ new # cur THEN new
    ELSE IF new = NoneCat THEN NoneCat
    ELSE cur

\* Mutant: a switch keeps the start of the segment it closed.
StartAfterChange_KeepOld(new, cur, start, t) ==
    IF new # NoneCat /\ new # cur THEN (IF start = NoneTime THEN t ELSE start)
    ELSE IF new = NoneCat THEN NoneTime
    ELSE start

\* Mutant: a call with the current category restarts the open segment.
StartAfterChange_AlwaysReset(new, cur, start, t) ==
    IF new # NoneCat THEN t ELSE NoneTime

StartAfterChange(new, cur, start, t) ==
    IF new # NoneCat /\ new # cur THEN t
    ELSE IF new = NoneCat THEN NoneTime
    ELSE start

\* The fragment a call throws away: a closed segment shorter than one second.
DiscardedByChange(new, cur, start, t) ==
    IF ClosesSegment(new, cur, start) /\ ~IsLoggable(DurationUnits(start, t))
    THEN DurationUnits(start, t)
    ELSE 0

\* change_current_daily_activity(new) at clock value now.
change_current_daily_activity(new) ==
    /\ daily_activity_log' =
          LogAfterChange(new, daily_activity_log, current_daily_activity,
                         last_activity_start_time, now)
    /\ current_daily_activity' = CurrentAfterChange(new, current_daily_activity)
    /\ last_activity_start_time' =
          StartAfterChange(new, current_daily_activity, last_activity_start_time, now)
    /\ discarded_units' = discarded_units +
          DiscardedByChange(new, current_daily_activity, last_activity_start_time, now)
    /\ first_set_time' =
          IF first_set_time = NoneTime /\ new # NoneCat THEN now ELSE first_set_time
    /\ n_changes' = IF new # NoneCat /\ new # current_daily_activity
                    THEN n_changes + 1 ELSE n_changes

\* --------------------------------------------- prompt_activity_category_choice
\* The value the prompt returns for a typed number; "retry" when it asks again.
PromptActivityResult(choice, is_initial_setup, cur) ==
    IF choice = 0 /\ ~is_initial_setup /\ cur # NoneCat THEN NoneCat
    ELSE IF choice = 0 /\ is_initial_setup THEN NoneCat
    ELSE IF 1 <= choice /\ choice <= Len(DEFAULT_DAILY_CATEGORIES)
         THEN DEFAULT_DAILY_CATEGORIES[choice]
    ELSE "retry"

\* ------------------------------------------------- show_daily_activity_summary
\* No summary is on screen: the dict does not exist.
NoSummary == [c \in {} |-> 0]

\* Before the first menu prompt main's local choice does not exist.
NoChoice == "unset"

\* Mutant: an entry replaces what its category had accumulated, so that only
\* the last segment of each category counts.
AccumulateEntries_LastWins(acc, log) ==
    [c \in DOMAIN acc |->
        IF \E i \in DOMAIN log : log[i].category = c
        THEN log[CHOOSE i \in DOMAIN log :
                    /\ log[i].category = c
                    /\ \A j \in DOMAIN log : log[j].category = c => j <= i].duration
        ELSE acc[c]]

\* for entry in daily_activity_data_log: accumulated_times[...] += duration
RECURSIVE AccumulateEntries(_, _)
AccumulateEntries(acc, log) ==
    IF log = << >> THEN acc
    ELSE AccumulateEntries([acc EXCEPT ![log[1].category] = @ + log[1].duration],
                           Tail(log))

\* accumulated_times as lines 812-822 compute it at clock t, in units: every
\* default category starts at 0, the logged durations are added, then the
\* running duration of the open segment when one is passed.
show_daily_activity_summary(log, current_active_category, last_active_start_time, t) ==
    LET zero == [c \in {DEFAULT_DAILY_CATEGORIES[i] :
                          i \in DOMAIN DEFAULT_DAILY_CATEGORIES} |-> 0]
        logged == AccumulateEntries(zero, log)
    IN IF /\ current_active_category # NoneCat
          /\ last_active_start_time # NoneTime
          /\ DurationUnits(last_active_start_time, t) > 0
       THEN [logged EXCEPT ![current_active_category] =
                @ + DurationUnits(last_active_start_time, t)]
       ELSE logged

\* ------------------------------------------------------------------- main
\* The phase names run_pomodoro passes to countdown_period (lines 481, 540, 542).
PhaseNames == {"TRABAJO", "DESCANSO CORTO", "DESCANSO LARGO"}
\* No phase of the run has returned 'completed'.
NoCompleted == [name \in PhaseNames |-> 0]

\* The timer's variables while no run_pomodoro is active.
NoConfig == [work_minutes |-> 0, short_break_minutes |-> 0,
             long_break_minutes |-> 0, num_cycles |-> 0]

TimerIdle ==
    /\ cfg = NoConfig
    /\ cycle_i = 0
    /\ current_set_pomodoros = 0
    /\ current_set_short_breaks = 0
    /\ current_set_long_breaks = 0
    /\ phase_name = "None"
    /\ duration_seconds = 0
    /\ current_seconds = 0
    /\ start_time_phase = NoneTime
    /\ is_paused = FALSE
    /\ elapsed_seconds = 0
    /\ outcome = "None"
    /\ unpaused_ticks = 0
    /\ n_toggles = 0
    /\ n_paused_ticks = 0
    /\ measured_at = NoneTime
    /\ completed_phases = NoCompleted
    /\ started_phases = NoCompleted
    /\ current_elapsed_seconds = 0
    /\ elapsed_minutes_simple = NotReturned

\* main, lines 857-870: the state when main() starts.
Init ==
    /\ now = 0
    /\ pc = "initial_setup"
    /\ daily_activity_log = << >>
    /\ current_daily_activity = NoneCat
    /\ last_activity_start_time = NoneTime
    /\ total_specific_category_times = [k \in SUBCATEGORIES |-> 0]
    /\ total_pomodoros_session = 0
    /\ total_short_breaks_session = 0
    /\ total_long_breaks_session = 0
    /\ TimerIdle
    /\ first_set_time = NoneTime
    /\ discarded_units = 0
    /\ n_changes = 0
    /\ accumulated_times = NoSummary
    /\ menu_choice = NoChoice
    /\ last_op = [op |-> "start", arg |-> NoneCat]

Running == pc \in {"initial_setup", "menu"}

\* Time passes while the program waits (input(), time.sleep()).
AdvanceClock(d) ==
    /\ Running
    /\ now + d <= MaxClock
    /\ now' = now + d
    /\ last_op' = [op |-> "clock", arg |-> NoneCat]
    /\ UNCHANGED << pc, ledgerVars, ledgerHistory, accumulated_times, timerVars, menu_choice >>

\* Mutant: an initial selection that was cancelled goes on to the menu.
EndsAtCancelledSetup_Never(initial_activity_choice) == FALSE

\* Line 878: if initial_activity_choice is None, main returns.
EndsAtCancelledSetup(initial_activity_choice) == initial_activity_choice = NoneCat

\* main, lines 876-886: the initial selection.
InitialSelection(activity_choice) ==
    /\ pc = "initial_setup"
    /\ LET r == PromptActivityResult(activity_choice, TRUE, current_daily_activity) IN
       /\ r # "retry"
       /\ IF EndsAtCancelledSetup(r)
          THEN /\ pc' = "cancelled"
               /\ last_op' = [op |-> "cancel_initial", arg |-> NoneCat]
               /\ UNCHANGED << ledgerVars, ledgerHistory, accumulated_times >>
          ELSE /\ change_current_daily_activity(r)
               /\ pc' = "menu"
               /\ last_op' = [op |-> "change", arg |-> r]
               /\ UNCHANGED accumulated_times
    /\ UNCHANGED << now, timerVars, menu_choice >>

\* main, lines 939-968: the options of the menu in the order in which they
\* are numbered; the two timers are listed when allowed holds.
MenuOptions(allowed) ==
    (IF allowed THEN << "pomodoro", "simple_timer" >> ELSE << >>)
       \o << "specific_summary", "change", "refresh", "daily_summary", "exit" >>

\* str(i) for the numbers a menu can show.
NumberText == << "1", "2", "3", "4", "5", "6", "7" >>

\* Line 973: valid_choices, the numbers 1..option_counter as texts;
\* option_counter is not incremented after the exit option (line 968), so
\* the last number is the one of the exit option.
valid_choices(allowed) == { NumberText[i] : i \in 1..Len(MenuOptions(allowed)) }

\* The text held by the variable option_<name> (lines 944-968): the number
\* given in this display, or, for a timer that is not listed now, the number
\* left by an earlier display that listed it.
OptionText(option, allowed) ==
    LET listed == IF \E i \in 1..Len(MenuOptions(allowed)) : MenuOptions(allowed)[i] = option
                  THEN MenuOptions(allowed) ELSE MenuOptions(TRUE)
    IN  NumberText[CHOOSE i \in 1..Len(listed) : listed[i] = option]

\* Mutant: the timer branches compare the choice without the test of
\* allow_pomodoro_timer.
Dispatch_Unguarded(typed, allowed) ==
    IF typed = OptionText("pomodoro", allowed) THEN "pomodoro"
    ELSE IF typed = OptionText("simple_timer", allowed) THEN "simple_timer"
    ELSE IF typed = OptionText("specific_summary", allowed) THEN "specific_summary"
    ELSE IF typed = OptionText("change", allowed) THEN "change"
    ELSE IF typed = OptionText("refresh", allowed) THEN "refresh"
    ELSE IF typed = OptionText("daily_summary", allowed) THEN "daily_summary"
    ELSE IF typed = OptionText("exit", allowed) THEN "exit"
    ELSE "none"

\* The if/elif chain of lines 1029-1141: the branch taken for a choice.
Dispatch(typed, allowed) ==
    IF allowed /\ typed = OptionText("pomodoro", allowed) THEN "pomodoro"
    ELSE IF allowed /\ typed = OptionText("simple_timer", allowed) THEN "simple_timer"
    ELSE IF typed = OptionText("specific_summary", allowed) THEN "specific_summary"
    ELSE IF typed = OptionText("change", allowed) THEN "change"
    ELSE IF typed = OptionText("refresh", allowed) THEN "refresh"
    ELSE IF typed = OptionText("daily_summary", allowed) THEN "daily_summary"
    ELSE IF typed = OptionText("exit", allowed) THEN "exit"
    ELSE "none"

\* main, lines 1108-1109: the option of the subcategory times, which prints
\* total_specific_category_times (lines 284-326).
MenuSpecificSummary ==
    /\ pc = "menu"
    /\ last_op' = [op |-> "specific_summary", arg |-> current_daily_activity]
    /\ UNCHANGED << now, pc, ledgerVars, ledgerHistory, accumulated_times, timerVars >>

\* main, lines 1131-1134: the refresh option: a notice and half a second.
MenuRefresh ==
    /\ pc = "menu"
    /\ now + (UnitsPerSecond \div 2) <= MaxClock
    /\ now' = now + (UnitsPerSecond \div 2)
    /\ last_op' = [op |-> "refresh", arg |-> current_daily_activity]
    /\ UNCHANGED << pc, ledgerVars, ledgerHistory, accumulated_times, timerVars >>

\* Ctrl+C at a prompt inside the try block of main's loop (the menu prompt,
\* the Enter of a summary, the configuration prompts): the handler of lines
\* 1164-1167 prints its notice and starts its pause of one second; the locals
\* of the interrupted call are gone.
MenuInterrupt ==
    /\ pc \in {"menu", "summary_shown", "config_prompt"}
    /\ now + 1 * UnitsPerSecond <= MaxClock
    /\ pc' = "menu_interrupted"
    /\ accumulated_times' = NoSummary
    /\ last_op' = [op |-> "menu_interrupt", arg |-> current_daily_activity]
    /\ UNCHANGED << now, ledgerVars, ledgerHistory, timerVars, menu_choice >>

\* The pause of line 1167 ends and the loop shows the menu again.
MenuInterruptResume ==
    /\ pc = "menu_interrupted"
    /\ pc' = "menu"
    /\ now' = now + 1 * UnitsPerSecond
    /\ last_op' = [op |-> "menu_resumed", arg |-> current_daily_activity]
    /\ UNCHANGED << ledgerVars, ledgerHistory, accumulated_times, timerVars, menu_choice >>

\* Mutant: a cancelled prompt is passed on as a change.
ChangesActivity_OnCancel(new_activity_choice, cur) == new_activity_choice # cur

\* Lines 1114-1116: change_current_daily_activity is called when the prompt
\* was not cancelled and its answer is another category than the current one.
ChangesActivity(new_activity_choice, cur) ==
    new_activity_choice # NoneCat /\ new_activity_choice # cur

\* main, lines 1112-1127: the menu option "Cambiar Actividad Diaria General".
MenuChangeActivity(activity_choice) ==
    /\ pc = "menu"
    /\ n_changes < MaxChanges
    /\ LET r == PromptActivityResult(activity_choice, FALSE, current_daily_activity) IN
       /\ r # "retry"
       /\ IF ChangesActivity(r, current_daily_activity)
          THEN /\ change_current_daily_activity(r)
               /\ last_op' = [op |-> "change", arg |-> r]
               /\ UNCHANGED accumulated_times
          ELSE /\ last_op' = [op |-> "keep", arg |-> r]
               /\ UNCHANGED << ledgerVars, ledgerHistory, accumulated_times >>
    /\ UNCHANGED << now, pc, timerVars >>

\* A call of change_current_daily_activity with any category while tracking:
\* the function as its contract states it, without the caller's guard of line 1116.
CallChange(new) ==
    /\ pc = "menu"
    /\ n_changes < MaxChanges
    /\ change_current_daily_activity(new)
    /\ last_op' = [op |-> "change", arg |-> new]
    /\ UNCHANGED << now, pc, accumulated_times, timerVars, menu_choice >>

\* main, lines 1137-1139: the menu option of the daily summary, which shows the
\* open segment as live time and waits for Enter (line 840).
MenuDailySummary ==
    /\ pc = "menu"
    /\ accumulated_times' =
          show_daily_activity_summary(daily_activity_log, current_daily_activity,
                                      last_activity_start_time, now)
    /\ pc' = "summary_shown"
    /\ last_op' = [op |-> "summary", arg |-> current_daily_activity]
    /\ UNCHANGED << now, ledgerVars, ledgerHistory, timerVars >>

\* Enter at line 840: the summary returns and its locals are gone.
SummaryReturn ==
    /\ pc = "summary_shown"
    /\ accumulated_times' = NoSummary
    /\ pc' = "menu"
    /\ last_op' = [op |-> "summary_return", arg |-> NoneCat]
    /\ UNCHANGED << now, ledgerVars, ledgerHistory, timerVars, menu_choice >>

\* Mutant: the final summary is given the log as it was before the closing.
FinalSummaryLog_BeforeClose(before, after) == before

\* The log the final summary is called with: the global daily_activity_log,
\* read after change_current_daily_activity(None) has run (lines 1156-1159).
FinalSummaryLog(before, after) == after

\* main, lines 1141-1162: the exit option closes the open segment and shows
\* the final summary.
MenuExit ==
    /\ pc = "menu"
    /\ change_current_daily_activity(NoneCat)
    /\ accumulated_times' =
          show_daily_activity_summary(
              FinalSummaryLog(daily_activity_log, daily_activity_log'),
              NoneCat, NoneTime, now)
    /\ pc' = "exited"
    /\ last_op' = [op |-> "change", arg |-> NoneCat]
    /\ UNCHANGED << now, timerVars >>

\* Mutant: an interruption at the menu prompt leaves main as well.
EscapesMain_AtMenuToo == pc \in {"initial_setup", "menu_interrupted", "menu"}

\* Where a KeyboardInterrupt is outside the try block of main's loop: at the
\* initial selection (lines 876-886) and during the pause of the loop's own
\* handler (line 1167).
EscapesMain == pc \in {"initial_setup", "menu_interrupted"}

\* __main__, lines 1181-1186: an interruption that escapes main().
AbruptExit ==
    /\ EscapesMain
    /\ IF current_daily_activity # NoneCat /\ last_activity_start_time # NoneTime
       THEN /\ change_current_daily_activity(NoneCat)
            /\ last_op' = [op |-> "change", arg |-> NoneCat]
       ELSE /\ last_op' = [op |-> "abort", arg |-> NoneCat]
            /\ UNCHANGED << ledgerVars, ledgerHistory >>
    /\ accumulated_times' =
          show_daily_activity_summary(daily_activity_log', NoneCat, NoneTime, now)
    /\ pc' = "aborted"
    /\ UNCHANGED << now, timerVars, menu_choice >>

InputCategories == { DEFAULT_DAILY_CATEGORIES[c] : c \in CategoryChoices \cap 1..Len(DEFAULT_DAILY_CATEGORIES) }

\* The ledger's operations as main's menu reaches them, with the number typed
\* for each option left out.
NextLedger ==
    \/ \E d \in ClockSteps : AdvanceClock(d)
    \/ \E c \in CategoryChoices : InitialSelection(c)
    \/ \E c \in CategoryChoices : MenuChangeActivity(c) /\ UNCHANGED menu_choice
    \/ \E new \in InputCategories : CallChange(new)
    \/ MenuDailySummary /\ UNCHANGED menu_choice
    \/ SummaryReturn
    \/ MenuExit /\ UNCHANGED menu_choice
    \/ MenuInterrupt
    \/ MenuInterruptResume
    \/ AbruptExit

SpecLedger == Init /\ [][NextLedger]_vars

\* ------------------------------------------------------------ timer inputs
MaxToggles == 2
MaxPausedTicks == 1

SecondsPerMinute == 60

\* The configurations typed at lines 1047-1050 that the model draws from.
Configs ==
    { [work_minutes |-> 1, short_break_minutes |-> 1, long_break_minutes |-> 2, num_cycles |-> 2],
      [work_minutes |-> 2, short_break_minutes |-> 1, long_break_minutes |-> 1, num_cycles |-> 1] }

\* The polling slice (0..SlicesPerTick-1) in which a key or Ctrl+C arrives.
KeySlices == {6}
\* The time spent at the interruption prompt before answering, in units.
PromptWaits == {25}
\* The answers typed at the subcategory prompt.
SubcategoryChoices == {0, 1, 2}

\* -------------------------------------------------------- countdown_period
\* Mutant: the timedelta is not converted to whole seconds.
ElapsedSeconds_Raw(start, t) == t - start

\* Mutant: the elapsed time is taken from the countdown, as the configured
\* duration minus the remaining-time counter.
ElapsedSeconds_FromCountdown(start, t) == duration_seconds - current_seconds

\* int((datetime.datetime.now() - start_time_phase).total_seconds())
ElapsedSeconds(start, t) == (t - start) \div UnitsPerSecond

\* Mutant: the early-termination key is honoured in every phase.
IsWorkPhase_AnyPhase(name) == TRUE

\* "TRABAJO" in phase_name
IsWorkPhase(name) == name = "TRABAJO"

\* Mutant: the counter is decremented whatever the pause flag.
SecondsAfterTick_IgnorePause(seconds, paused) == seconds - 1

\* if not is_paused: current_seconds -= 1
SecondsAfterTick(seconds, paused) == IF ~paused THEN seconds - 1 ELSE seconds

\* Mutant: Enter pauses but never resumes.
PausedAfterEnter_Sticky(paused) == TRUE

\* is_paused = not is_paused
PausedAfterEnter(paused) == ~paused

\* Mutant: a completed phase reports no elapsed time.
CompletedElapsed_Zero(duration) == 0

\* elapsed_seconds_during_phase = total_duration_seconds_initial
CompletedElapsed(duration) == duration

\* Lines 350-354: the locals at the start of a countdown that begins at clock t.
BeginCountdown(duration, name, t) ==
    /\ phase_name' = name
    /\ duration_seconds' = duration
    /\ current_seconds' = duration
    /\ start_time_phase' = t
    /\ is_paused' = FALSE
    /\ elapsed_seconds' = 0
    /\ outcome' = "None"
    /\ unpaused_ticks' = 0
    /\ measured_at' = NoneTime

\* return (elapsed, status) of countdown_period, the clock being t at the return.
ReturnPhase(elapsed, status, read_at, t) ==
    /\ elapsed_seconds' = elapsed
    /\ outcome' = status
    /\ measured_at' = read_at
    /\ now' = t
    /\ pc' = "phase_returned"

\* Mutant: the loop is left at zero, one tick before the code after it expects.
InLoop_StopsAtZero == pc = "countdown" /\ current_seconds > 0

InLoop == pc = "countdown" /\ current_seconds >= 0

\* One iteration of the while loop in which the ten polling slices find no
\* key that the loop acts on (lines 361-412).
TickIdle ==
    /\ InLoop
    /\ is_paused => n_paused_ticks < MaxPausedTicks
    /\ now' = now + SlicesPerTick
    /\ current_seconds' = SecondsAfterTick(current_seconds, is_paused)
    /\ unpaused_ticks' = IF is_paused THEN unpaused_ticks ELSE unpaused_ticks + 1
    /\ n_paused_ticks' = IF is_paused THEN n_paused_ticks + 1 ELSE n_paused_ticks
    /\ last_op' = [op |-> "tick", arg |-> "none"]
    /\ UNCHANGED << pc, ledgerVars, ledgerHistory, accumulated_times, menu_choice, completed_phases, started_phases, simpleVars, total_specific_category_times,
                    sessionVars, schedVars, phase_name, duration_seconds,
                    start_time_phase, is_paused, resultVars, n_toggles, measured_at >>

\* One iteration in which Enter is read in polling slice k (lines 384-389, 411-412).
TickEnter(k) ==
    /\ InLoop
    /\ n_toggles < MaxToggles
    /\ now' = now + k
    /\ is_paused' = PausedAfterEnter(is_paused)
    /\ current_seconds' = SecondsAfterTick(current_seconds, is_paused')
    /\ unpaused_ticks' = IF is_paused' THEN unpaused_ticks ELSE unpaused_ticks + 1
    /\ n_toggles' = n_toggles + 1
    /\ last_op' = [op |-> "tick", arg |-> "enter"]
    /\ UNCHANGED << pc, ledgerVars, ledgerHistory, accumulated_times, menu_choice, completed_phases, started_phases, simpleVars, total_specific_category_times,
                    sessionVars, schedVars, phase_name, duration_seconds,
                    start_time_phase, resultVars, n_paused_ticks, measured_at >>

\* Mutant: the keep/discard question is asked whatever the elapsed time.
AsksEarlyEndDecision_Always(elapsed) == TRUE

\* if elapsed_seconds_during_phase > 0 (line 395)
AsksEarlyEndDecision(elapsed) == elapsed > 0

\* One iteration in which 'q' is read in polling slice k (lines 390-409).
TickQ(k) ==
    /\ InLoop
    /\ IF IsWorkPhase(phase_name)
       THEN /\ LET e == ElapsedSeconds(start_time_phase, now + k) IN
                 IF AsksEarlyEndDecision(e)
                 THEN /\ pc' = "early_end_prompt"
                      /\ elapsed_seconds' = e
                      /\ measured_at' = now + k
                      /\ now' = now + k
                      /\ UNCHANGED outcome
                 ELSE ReturnPhase(0, "early_end_not_registered", now + k,
                                  now + k + 1 * UnitsPerSecond)
            /\ UNCHANGED << current_seconds, unpaused_ticks, n_paused_ticks >>
       ELSE \* the key is ignored and the iteration runs its ten slices
            /\ is_paused => n_paused_ticks < MaxPausedTicks
            /\ now' = now + SlicesPerTick
            /\ current_seconds' = SecondsAfterTick(current_seconds, is_paused)
            /\ unpaused_ticks' = IF is_paused THEN unpaused_ticks ELSE unpaused_ticks + 1
            /\ n_paused_ticks' = IF is_paused THEN n_paused_ticks + 1 ELSE n_paused_ticks
            /\ UNCHANGED << pc, resultVars, measured_at >>
    /\ last_op' = [op |-> "tick", arg |-> "q"]
    /\ UNCHANGED << ledgerVars, ledgerHistory, accumulated_times, menu_choice, completed_phases, started_phases, simpleVars, total_specific_category_times,
                    sessionVars, schedVars, phase_name, duration_seconds,
                    start_time_phase, is_paused, n_toggles >>

\* The answer to "¿Quieres registrar estos ...?" (lines 397-403).
EarlyEndAnswer(answer) ==
    /\ pc = "early_end_prompt"
    /\ IF answer = "s"
       THEN ReturnPhase(elapsed_seconds, "early_end_registered", measured_at, now)
       ELSE ReturnPhase(elapsed_seconds, "early_end_not_registered", measured_at,
                        now + 1 * UnitsPerSecond)
    /\ last_op' = [op |-> "early_end_answer", arg |-> answer]
    /\ UNCHANGED << ledgerVars, ledgerHistory, accumulated_times, menu_choice, completed_phases, started_phases, simpleVars, total_specific_category_times,
                    sessionVars, schedVars, phaseVars, unpaused_ticks, n_toggles,
                    n_paused_ticks >>

\* Ctrl+C inside the try block (lines 360-431): k slices into the current
\* iteration, k units into the wait at the early-end prompt, or k units into
\* the end-of-phase notice (sound and sleep, lines 416-428).
Interrupt(k) ==
    /\ pc \in {"countdown", "early_end_prompt"}
    /\ pc' = "interrupt_prompt"
    /\ now' = now + k
    /\ last_op' = [op |-> "interrupt", arg |-> "ctrl_c"]
    /\ UNCHANGED << ledgerVars, ledgerHistory, accumulated_times, menu_choice, completed_phases, started_phases, simpleVars, total_specific_category_times,
                    sessionVars, schedVars, phaseVars, resultVars, phaseHistory >>

\* The answer to "[S]altar / [C]ancelar", given after wait units (lines 433-442).
InterruptAnswer(choice, wait) ==
    /\ pc = "interrupt_prompt"
    /\ ReturnPhase(ElapsedSeconds(start_time_phase, now + wait),
                   IF choice = "c" THEN "user_cancelled_all" ELSE "user_skip_phase",
                   now + wait, now + wait + 1 * UnitsPerSecond)
    /\ last_op' = [op |-> "interrupt_answer", arg |-> choice]
    /\ UNCHANGED << ledgerVars, ledgerHistory, accumulated_times, menu_choice, completed_phases, started_phases, simpleVars, total_specific_category_times,
                    sessionVars, schedVars, phaseVars, unpaused_ticks, n_toggles,
                    n_paused_ticks >>

\* Mutant: a failed notification spoils the phase result.
CompletionStatus_FailsWithSound(sound_fails) ==
    IF sound_fails THEN "user_skip_phase" ELSE "completed"

\* Lines 421-429: an exception of playsound is caught and reported as a
\* warning, and 'completed' is returned in either case.
CompletionStatus(sound_fails) == "completed"

\* The loop has ended: lines 414-429. playsound either plays the cue or
\* raises, which is for the environment to decide.
CountdownComplete(sound_fails) ==
    /\ pc = "countdown"
    /\ current_seconds < 0
    /\ ReturnPhase(CompletedElapsed(duration_seconds), CompletionStatus(sound_fails),
                   NoneTime, now + 3 * UnitsPerSecond)
    /\ completed_phases' =
          IF CompletionStatus(sound_fails) = "completed"
          THEN [completed_phases EXCEPT ![phase_name] = @ + 1]
          ELSE completed_phases
    /\ last_op' = [op |-> "complete", arg |-> phase_name,
                   sound |-> IF sound_fails THEN "failed" ELSE "played"]
    /\ UNCHANGED << ledgerVars, ledgerHistory, accumulated_times, menu_choice, started_phases, simpleVars, total_specific_category_times,
                    sessionVars, schedVars, phaseVars, unpaused_ticks, n_toggles,
                    n_paused_ticks >>

\* A countdown_period call on its own: the state at its entry, for a work
\* phase or a break phase of one or two minutes.
InitCountdown ==
    /\ now = 0
    /\ pc = "countdown"
    /\ daily_activity_log = << >>
    /\ current_daily_activity = "Estudio"
    /\ last_activity_start_time = 0
    /\ total_specific_category_times = [k \in SUBCATEGORIES |-> 0]
    /\ total_pomodoros_session = 0
    /\ total_short_breaks_session = 0
    /\ total_long_breaks_session = 0
    /\ cfg \in Configs
    /\ cycle_i = 1
    /\ current_set_pomodoros = 0
    /\ current_set_short_breaks = 0
    /\ current_set_long_breaks = 0
    /\ phase_name \in {"TRABAJO", "DESCANSO CORTO"}
    /\ duration_seconds = (IF phase_name = "TRABAJO" THEN cfg.work_minutes
                           ELSE cfg.short_break_minutes) * SecondsPerMinute
    /\ current_seconds = duration_seconds
    /\ start_time_phase = 0
    /\ is_paused = FALSE
    /\ elapsed_seconds = 0
    /\ outcome = "None"
    /\ first_set_time = 0
    /\ discarded_units = 0
    /\ n_changes = 1
    /\ unpaused_ticks = 0
    /\ n_toggles = 0
    /\ n_paused_ticks = 0
    /\ measured_at = NoneTime
    /\ completed_phases = NoCompleted
    /\ started_phases = NoCompleted
    /\ current_elapsed_seconds = 0
    /\ elapsed_minutes_simple = NotReturned
    /\ accumulated_times = NoSummary
    /\ menu_choice = NoChoice
    /\ last_op = [op |-> "start", arg |-> NoneCat]

NextCountdown ==
    \/ TickIdle
    \/ \E k \in KeySlices : TickEnter(k)
    \/ \E k \in KeySlices : TickQ(k)
    \/ \E a \in {"s", "n"} : EarlyEndAnswer(a)
    \/ \E k \in KeySlices : Interrupt(k)
    \/ \E c \in {"c", "s"}, w \in PromptWaits : InterruptAnswer(c, w)
    \/ \E sound_fails \in BOOLEAN : CountdownComplete(sound_fails)

SpecCountdown == InitCountdown /\ [][NextCountdown]_vars

\* ------------------------------------------- prompt_specific_work_category
\* Mutant: the prompt lists the subcategories of Trabajo whatever the category.
prompt_specific_work_category_OfTrabajo(main_category, opcion) ==
    IF main_category \notin DOMAIN SPECIFIC_SUBCATEGORY_MAPPING THEN NoneCat
    ELSE IF opcion = 0 THEN NoneCat
    ELSE IF 1 <= opcion /\ opcion <= Len(SPECIFIC_SUBCATEGORY_MAPPING["Trabajo"])
         THEN SPECIFIC_SUBCATEGORY_MAPPING["Trabajo"][opcion]
    ELSE "retry"

\* The value the subcategory prompt returns for a typed number (lines 245-269);
\* "retry" when it asks again.
prompt_specific_work_category(main_category, opcion) ==
    IF main_category \notin DOMAIN SPECIFIC_SUBCATEGORY_MAPPING THEN NoneCat
    ELSE IF opcion = 0 THEN NoneCat
    ELSE IF 1 <= opcion /\ opcion <= Len(SPECIFIC_SUBCATEGORY_MAPPING[main_category])
         THEN SPECIFIC_SUBCATEGORY_MAPPING[main_category][opcion]
    ELSE "retry"

\* Mutant: the minutes replace the subcategory's total instead of adding to it.
assign_time_to_specific_category_Overwrite(totals, duration_minutes, specific_category) ==
    IF specific_category \in DOMAIN totals
    THEN [totals EXCEPT ![specific_category] = duration_minutes]
    ELSE [k \in DOMAIN totals \cup {specific_category} |->
            IF k = specific_category THEN duration_minutes ELSE totals[k]]

\* Mutant: an unknown subcategory is not added to the dict.
assign_time_to_specific_category_KnownOnly(totals, duration_minutes, specific_category) ==
    IF specific_category \in DOMAIN totals
    THEN [totals EXCEPT ![specific_category] = @ + duration_minutes]
    ELSE totals

\* assign_time_to_specific_category (lines 271-282), as the new totals.
assign_time_to_specific_category(totals, duration_minutes, specific_category) ==
    IF specific_category \in DOMAIN totals
    THEN [totals EXCEPT ![specific_category] = @ + duration_minutes]
    ELSE [k \in DOMAIN totals \cup {specific_category} |->
            IF k = specific_category THEN duration_minutes ELSE totals[k]]

\* ------------------------------------------------------------ run_pomodoro
\* The daily_activity_name argument: main passes current_daily_activity
\* (line 1064), which no step of a run changes.
daily_activity_name == current_daily_activity

HasSubcategories(name) == name # NoneCat /\ name \in DOMAIN SPECIFIC_SUBCATEGORY_MAPPING

\* Mutant: no break is long.
IsLongBreak_Never(i, num_cycles) == FALSE

\* Mutant: every break is long.
IsLongBreak_Always(i, num_cycles) == TRUE

\* is_long_break = (i % num_cycles == 0)
IsLongBreak(i, num_cycles) == i % num_cycles = 0

\* Mutant: a started minute counts as a whole one.
WorkMinutesToCredit_RoundUp(status, work_minutes, elapsed) ==
    IF status = "completed" THEN work_minutes
    ELSE (elapsed + SecondsPerMinute - 1) \div SecondsPerMinute

\* The minutes a work outcome offers for crediting (lines 490, 499).
WorkMinutesToCredit(status, work_minutes, elapsed) ==
    IF status = "completed" THEN work_minutes ELSE elapsed \div SecondsPerMinute

\* Mutant: a discarded early end leads to the prompt as a kept one does.
PromptsSubcategory_AlsoDiscarded(status, elapsed, name) ==
    /\ \/ status = "completed"
       \/ /\ status \in {"early_end_registered", "early_end_not_registered"}
          /\ elapsed \div SecondsPerMinute > 0
    /\ HasSubcategories(name)

\* Mutant: a kept early end leads to the prompt whatever its length.
PromptsSubcategory_AnyElapsed(status, elapsed, name) ==
    /\ status \in {"completed", "early_end_registered"}
    /\ name # NoneCat /\ name \in DOMAIN SPECIFIC_SUBCATEGORY_MAPPING

\* Whether the work outcome leads to the subcategory prompt (lines 484-504).
PromptsSubcategory(status, elapsed, name) ==
    /\ \/ status = "completed"
       \/ status = "early_end_registered" /\ elapsed \div SecondsPerMinute > 0
    /\ HasSubcategories(name)

\* A countdown_period call that starts at clock t, in cycle i.
StartPhase(name, duration, t, i) ==
    /\ BeginCountdown(duration, name, t)
    /\ pc' = "countdown"
    /\ cycle_i' = i
    /\ now' = t
    /\ started_phases' = [started_phases EXCEPT ![name] = @ + 1]

\* run_pomodoro returns its three counters at clock t.
ReturnFromRun(t) ==
    /\ pc' = "pomodoro_returned"
    /\ now' = t
    /\ UNCHANGED << cycle_i, phaseVars, resultVars, unpaused_ticks, measured_at, started_phases >>

StartWork(t, i) == StartPhase("TRABAJO", cfg.work_minutes * SecondsPerMinute, t, i)

\* Lines 532-543.
StartBreak(t) ==
    IF IsLongBreak(cycle_i, cfg.num_cycles)
    THEN StartPhase("DESCANSO LARGO", cfg.long_break_minutes * SecondsPerMinute, t, cycle_i)
    ELSE StartPhase("DESCANSO CORTO", cfg.short_break_minutes * SecondsPerMinute, t, cycle_i)

\* Mutant: the break of the cycle is run instead of going to the next cycle.
NextCycle_RunBreak(t) == StartBreak(t)

\* The next iteration of the for loop, or its end (lines 470, 561-563).
NextCycle(t) ==
    IF cycle_i < cfg.num_cycles THEN StartWork(t, cycle_i + 1) ELSE ReturnFromRun(t)

\* Lines 455-481: the counters start at 0 and the first work phase begins.
RunPomodoroStart ==
    /\ pc = "pomodoro_call"
    /\ current_set_pomodoros' = 0
    /\ current_set_short_breaks' = 0
    /\ current_set_long_breaks' = 0
    /\ StartWork(now + 2 * UnitsPerSecond, 1)
    /\ last_op' = [op |-> "run_start", arg |-> NoneCat]
    /\ UNCHANGED << ledgerVars, ledgerHistory, accumulated_times, menu_choice, completed_phases, simpleVars, total_specific_category_times,
                    sessionVars, cfg, n_toggles, n_paused_ticks >>

\* Lines 484-517: the crediting and counting of a work outcome; opcion is the
\* answer to the subcategory prompt when there is one.
WorkOutcomeEffects(opcion, op_name) ==
    LET prompted == PromptsSubcategory(outcome, elapsed_seconds, daily_activity_name)
        chosen == IF prompted
                  THEN prompt_specific_work_category(daily_activity_name, opcion)
                  ELSE NoneCat
        minutes == WorkMinutesToCredit(outcome, cfg.work_minutes, elapsed_seconds)
    IN
    /\ prompted \/ opcion = 0
    /\ chosen # "retry"
    /\ total_specific_category_times' =
          IF chosen # NoneCat
          THEN assign_time_to_specific_category(total_specific_category_times,
                                                minutes, chosen)
          ELSE total_specific_category_times
    /\ current_set_pomodoros' =
          IF outcome = "completed" THEN current_set_pomodoros + 1
          ELSE current_set_pomodoros
    /\ last_op' = [op |-> op_name, arg |-> chosen]

\* Mutant: no outcome ends the run.
EndsRun_Never(status) == FALSE

\* The outcome on which run_pomodoro returns at once (lines 519-521, 552-553).
EndsRun(status) == status = "user_cancelled_all"

\* Lines 484-543: the work outcome is processed and the run goes on; Enter is
\* typed at the prompt that follows, if any.
ProcessWorkOutcome(opcion) ==
    /\ pc = "phase_returned"
    /\ IsWorkPhase(phase_name)
    /\ WorkOutcomeEffects(opcion, "work_outcome")
    /\ CASE EndsRun(outcome) -> ReturnFromRun(now)
         [] ~EndsRun(outcome) /\ outcome = "user_skip_phase" -> NextCycle(now)
         [] OTHER -> StartBreak(now + 1 * UnitsPerSecond)
    /\ UNCHANGED << ledgerVars, ledgerHistory, accumulated_times, menu_choice, completed_phases, simpleVars, sessionVars, cfg,
                    current_set_short_breaks, current_set_long_breaks,
                    n_toggles, n_paused_ticks >>

\* Mutant: a break is counted whatever its outcome.
CountsBreak_AnyOutcome(break_outcome) == TRUE

\* Line 546: if break_outcome == 'completed'.
CountsBreak(break_outcome) == break_outcome = "completed"

\* Lines 546-556: the counting of a break outcome.
BreakOutcomeEffects(op_name) ==
    /\ current_set_long_breaks' =
          IF CountsBreak(outcome) /\ IsLongBreak(cycle_i, cfg.num_cycles)
          THEN current_set_long_breaks + 1 ELSE current_set_long_breaks
    /\ current_set_short_breaks' =
          IF CountsBreak(outcome) /\ ~IsLongBreak(cycle_i, cfg.num_cycles)
          THEN current_set_short_breaks + 1 ELSE current_set_short_breaks
    /\ last_op' = [op |-> op_name, arg |-> outcome]

\* Lines 546-563: the break outcome is processed and the run goes on.
ProcessBreakOutcome ==
    /\ pc = "phase_returned"
    /\ ~IsWorkPhase(phase_name)
    /\ BreakOutcomeEffects("break_outcome")
    /\ IF EndsRun(outcome) THEN ReturnFromRun(now) ELSE NextCycle(now)
    /\ UNCHANGED << ledgerVars, ledgerHistory, accumulated_times, menu_choice, completed_phases, simpleVars, total_specific_category_times,
                    sessionVars, cfg, current_set_pomodoros, n_toggles, n_paused_ticks >>

\* A KeyboardInterrupt raised in run_pomodoro outside the try block of
\* countdown_period: no handler of run_pomodoro catches it, the call of line
\* 1061 does not return and main's handler (lines 1164-1168) goes back to the
\* menu after its sleep; the session totals are not updated.
PropagateToMain ==
    /\ pc' = "menu"
    /\ now' = now + 1 * UnitsPerSecond
    /\ UNCHANGED << ledgerVars, ledgerHistory, accumulated_times, menu_choice, completed_phases, started_phases, simpleVars, sessionVars, cfg, cycle_i,
                    phaseVars, resultVars, phaseHistory >>

\* Ctrl+C during the sleep of line 458 or at the prompt of line 468.
InterruptBeforeFirstPhase ==
    /\ pc = "pomodoro_call"
    /\ PropagateToMain
    /\ last_op' = [op |-> "run_interrupted", arg |-> "start"]
    /\ UNCHANGED << total_specific_category_times, current_set_pomodoros,
                    current_set_short_breaks, current_set_long_breaks >>

\* Ctrl+C after a work phase has returned: during the sleeps of lines 496, 513,
\* 517 or at the prompts of lines 527, 537, the outcome having been credited;
\* at the subcategory prompt (line 257) nothing has been credited yet, which
\* is the case opcion = 0 as far as the state that survives is concerned.
InterruptAfterWorkOutcome(opcion) ==
    /\ pc = "phase_returned"
    /\ IsWorkPhase(phase_name)
    /\ outcome # "user_cancelled_all"
    /\ outcome = "user_skip_phase" => cycle_i < cfg.num_cycles
    /\ WorkOutcomeEffects(opcion, "work_outcome_interrupted")
    /\ PropagateToMain
    /\ UNCHANGED << current_set_short_breaks, current_set_long_breaks >>

\* Ctrl+C at the prompt of line 559, after a break phase has returned.
InterruptAfterBreakOutcome ==
    /\ pc = "phase_returned"
    /\ ~IsWorkPhase(phase_name)
    /\ outcome # "user_cancelled_all"
    /\ cycle_i < cfg.num_cycles
    /\ BreakOutcomeEffects("break_outcome_interrupted")
    /\ PropagateToMain
    /\ UNCHANGED << total_specific_category_times, current_set_pomodoros >>

\* A second Ctrl+C, at the prompt of the handler (line 433) or during its
\* sleeps (lines 437, 441), which are outside the try block.
InterruptAtInterruptPrompt ==
    /\ pc = "interrupt_prompt"
    /\ PropagateToMain
    /\ last_op' = [op |-> "run_interrupted", arg |-> "handler"]
    /\ UNCHANGED << total_specific_category_times, current_set_pomodoros,
                    current_set_short_breaks, current_set_long_breaks >>

\* The exceptions the model raises: a Ctrl+C and any other runtime fault.
ExceptionKinds == {"KeyboardInterrupt", "Exception"}

\* The only except clause of countdown_period (line 431).
CaughtByCountdown(exception) == exception = "KeyboardInterrupt"

\* A main loop whose only handler is the one of lines 1164-1168.
CaughtByMainLoop_OnlyInterrupt(exception) == exception = "KeyboardInterrupt"

\* The except clauses that close the try block of main's loop (lines 1164 and
\* 1170): both kinds are caught and the loop goes on.
CaughtByMainLoop(exception) == exception \in ExceptionKinds

\* The only except clause around the call of main (line 1181).
CaughtByEntryPoint(exception) == exception = "KeyboardInterrupt"

\* Where an exception raised inside the while loop of countdown_period ends:
\* in the handler of countdown_period, else (run_pomodoro has no handler) in
\* main's loop, which goes back to the menu, else at the entry point, which
\* takes the abrupt path for the one kind it catches; anything else ends the
\* process with a traceback.
TickLoopExceptionEnds(exception) ==
    IF CaughtByCountdown(exception) THEN "interrupt_prompt"
    ELSE IF CaughtByMainLoop(exception) THEN "menu"
    ELSE IF CaughtByEntryPoint(exception) THEN "aborted"
    ELSE "crashed"

\* A runtime fault other than KeyboardInterrupt raised by a statement of the
\* tick loop (lines 361-429) during a scheduler run: main's handler of lines
\* 1170-1173 prints its notice, sleeps one second and the loop shows the menu;
\* lines 1067-1069 are not reached.
FaultInTickLoop ==
    /\ pc = "countdown"
    /\ pc' = TickLoopExceptionEnds("Exception")
    /\ now' = now + 1 * UnitsPerSecond
    /\ last_op' = [op |-> "fault", arg |-> phase_name]
    /\ UNCHANGED << ledgerVars, ledgerHistory, accumulated_times, menu_choice, completed_phases, started_phases, simpleVars, total_specific_category_times,
                    sessionVars, schedVars, phaseVars, resultVars, phaseHistory >>

\* Mutant: the segment start is set to the clock when a timer run is over.
StartAfterTimerRun_Reset(start, t) == t

\* Lines 1082-1083 and 1105-1106: main assigns nothing to
\* last_activity_start_time after a timer has returned.
StartAfterTimerRun(start, t) == start

\* main, lines 1061-1083: the run's counters are added to the session totals.
ReturnToMain ==
    /\ pc = "pomodoro_returned"
    /\ total_pomodoros_session' = total_pomodoros_session + current_set_pomodoros
    /\ total_short_breaks_session' = total_short_breaks_session + current_set_short_breaks
    /\ total_long_breaks_session' = total_long_breaks_session + current_set_long_breaks
    /\ pc' = "menu"
    /\ last_op' = [op |-> "run_returned", arg |-> NoneCat]
    /\ last_activity_start_time' = StartAfterTimerRun(last_activity_start_time, now)
    /\ UNCHANGED << now, daily_activity_log, current_daily_activity, ledgerHistory, accumulated_times, menu_choice, completed_phases, started_phases, simpleVars, total_specific_category_times,
                    schedVars, phaseVars, resultVars, phaseHistory >>

\* main's session totals (lines 857-859, 1067-1069) when run_pomodoro is
\* called: those of a first run and those left by earlier runs.
PriorSessionTotals == { << 0, 0, 0 >>, << 3, 2, 1 >> }

\* main at the call of run_pomodoro (line 1061): a category with subcategories
\* is current (line 936) and a configuration has been typed.
InitPomodoro ==
    /\ now = 0
    /\ pc = "pomodoro_call"
    /\ daily_activity_log = << >>
    /\ current_daily_activity = "Estudio"
    /\ last_activity_start_time = 0
    /\ total_specific_category_times = [k \in SUBCATEGORIES |-> 0]
    /\ \E prior \in PriorSessionTotals :
          /\ total_pomodoros_session = prior[1]
          /\ total_short_breaks_session = prior[2]
          /\ total_long_breaks_session = prior[3]
    /\ cfg \in Configs
    /\ cycle_i = 0
    /\ current_set_pomodoros = 0
    /\ current_set_short_breaks = 0
    /\ current_set_long_breaks = 0
    /\ phase_name = "None"
    /\ duration_seconds = 0
    /\ current_seconds = 0
    /\ start_time_phase = NoneTime
    /\ is_paused = FALSE
    /\ elapsed_seconds = 0
    /\ outcome = "None"
    /\ first_set_time = 0
    /\ discarded_units = 0
    /\ n_changes = 1
    /\ unpaused_ticks = 0
    /\ n_toggles = 0
    /\ n_paused_ticks = 0
    /\ measured_at = NoneTime
    /\ completed_phases = NoCompleted
    /\ started_phases = NoCompleted
    /\ current_elapsed_seconds = 0
    /\ elapsed_minutes_simple = NotReturned
    /\ accumulated_times = NoSummary
    /\ menu_choice = NoChoice
    /\ last_op = [op |-> "start", arg |-> NoneCat]

\* The ticks of a phase at which the modelled user presses 'q' or Ctrl+C in a
\* scheduler run: the first two, the last, and the end-of-phase notice.
AtKeyPoint == current_seconds \in {duration_seconds, duration_seconds - 1, 0, -1}

NextPomodoro ==
    \/ RunPomodoroStart
    \/ TickIdle
    \/ \E k \in KeySlices : TickEnter(k)
    \/ \E k \in KeySlices : AtKeyPoint /\ TickQ(k)
    \/ \E a \in {"s", "n"} : EarlyEndAnswer(a)
    \/ \E k \in KeySlices : AtKeyPoint /\ Interrupt(k)
    \/ \E c \in {"c", "s"}, w \in PromptWaits : InterruptAnswer(c, w)
    \/ \E sound_fails \in BOOLEAN : CountdownComplete(sound_fails)
    \/ \E o \in SubcategoryChoices : ProcessWorkOutcome(o)
    \/ ProcessBreakOutcome
    \/ ReturnToMain
    \/ InterruptBeforeFirstPhase
    \/ \E o \in SubcategoryChoices : InterruptAfterWorkOutcome(o)
    \/ InterruptAfterBreakOutcome
    \/ InterruptAtInterruptPrompt
    \/ AtKeyPoint /\ FaultInTickLoop

SpecPomodoro == InitPomodoro /\ [][NextPomodoro]_vars

\* ------------------------------------------------- main: the timer options
\* What the user types at the four configuration prompts (lines 1047-1050):
\* two positive configurations, two with a non-positive number and two with
\* a text that is not an integer.
TypedConfigs ==
    { << "1", "1", "2", "2" >>, << "2", "1", "1", "1" >>,
      << "0", "1", "1", "1" >>, << "1", "1", "1", "-2" >>,
      << "1", "abc", "1", "1" >>, << "1", "1", "1.5", "1" >> }

\* The texts that int() of Python converts, with their values; int() of any
\* other text raises ValueError.
IntegerTexts == ("0" :> 0) @@ ("1" :> 1) @@ ("2" :> 2) @@ ("-2" :> -2)

\* int(input(...)): ok is FALSE when ValueError is raised.
ParseInt(text) ==
    IF text \in DOMAIN IntegerTexts
    THEN [ok |-> TRUE, val |-> IntegerTexts[text]]
    ELSE [ok |-> FALSE, val |-> 0]

\* work, short_break, long_break, cycles = 90, 15, 45, 4 (line 1031).
DefaultConfig == [work_minutes |-> 90, short_break_minutes |-> 15,
                  long_break_minutes |-> 45, num_cycles |-> 4]

\* Mutant: the check of line 1052 is missing.
ConfigIsPositive_Unchecked(c) == TRUE

\* Line 1052, negated: the typed configuration leaves the loop.
ConfigIsPositive(c) ==
    ~(c.work_minutes <= 0 \/ c.short_break_minutes <= 0
      \/ c.long_break_minutes <= 0 \/ c.num_cycles <= 0)

\* The position of the first prompt whose int() raises, 5 when none does.
FirstValueError(typed) ==
    IF \E k \in 1..4 : ~ParseInt(typed[k]).ok
    THEN CHOOSE k \in 1..4 : /\ ~ParseInt(typed[k]).ok
                             /\ \A j \in 1..(k - 1) : ParseInt(typed[j]).ok
    ELSE 5

\* Lines 1047-1050: the four assignments, of which those before the first
\* ValueError have happened.
ConfigAfterEntry(c, typed) ==
    LET bad == FirstValueError(typed) IN
    [work_minutes        |-> IF 1 < bad THEN ParseInt(typed[1]).val ELSE c.work_minutes,
     short_break_minutes |-> IF 2 < bad THEN ParseInt(typed[2]).val ELSE c.short_break_minutes,
     long_break_minutes  |-> IF 3 < bad THEN ParseInt(typed[3]).val ELSE c.long_break_minutes,
     num_cycles          |-> IF 4 < bad THEN ParseInt(typed[4]).val ELSE c.num_cycles]

\* The time that passes between two operations of the menu.
MainClockSteps == {13}

\* What the modelled user types at the menu prompt (after strip()).
TypedChoices == { "1", "2", "3", "4", "5", "6", "7", "8", "0", "" }

\* Mutant: the timers are offered whatever the current category.
allow_pomodoro_timer_Always == TRUE

\* Line 936: allow_pomodoro_timer.
allow_pomodoro_timer == HasSubcategories(current_daily_activity)

\* Lines 976-1029: the text typed at the menu prompt passes the test of line
\* 979 and the chain of branches takes the one of option. Each option's own
\* action below is what that branch does.
MenuChoice(typed, option) ==
    /\ pc = "menu"
    /\ typed \in valid_choices(allow_pomodoro_timer)
    /\ Dispatch(typed, allow_pomodoro_timer) = option
    /\ menu_choice' = typed

\* Lines 979-1025: a text that is not in valid_choices gets the error notice,
\* a pause of one second, the menu again and a new prompt.
MenuInvalidChoice(typed) ==
    /\ pc = "menu"
    /\ typed \notin valid_choices(allow_pomodoro_timer)
    /\ now + 1 * UnitsPerSecond <= MaxClock
    /\ now' = now + 1 * UnitsPerSecond
    /\ menu_choice' = typed
    /\ last_op' = [op |-> "invalid_choice", arg |-> typed]
    /\ UNCHANGED << pc, ledgerVars, ledgerHistory, accumulated_times, timerVars >>

\* main, lines 1025-1040: the Pomodoro option, offered when allow_pomodoro_timer
\* holds, and the answer to the question whether to customise (any other
\* answer than s or n asks again).
MenuPomodoro(customize_choice) ==
    /\ pc = "menu"
    /\ cfg' = DefaultConfig
    /\ pc' = IF customize_choice = "s" THEN "config_prompt" ELSE "pomodoro_call"
    /\ last_op' = [op |-> "pomodoro_option", arg |-> current_daily_activity]
    /\ UNCHANGED << now, ledgerVars, ledgerHistory, accumulated_times, completed_phases, started_phases, simpleVars,
                    total_specific_category_times, sessionVars, cycle_i,
                    current_set_pomodoros, current_set_short_breaks,
                    current_set_long_breaks, phaseVars, resultVars, phaseHistory >>

\* main, lines 1042-1059: one pass of the configuration loop. A ValueError
\* or a non-positive number asks again; the call of run_pomodoro (line 1061)
\* is reached through the break of line 1056 only.
ConfigEntry(typed) ==
    /\ pc = "config_prompt"
    /\ cfg' = ConfigAfterEntry(cfg, typed)
    /\ IF FirstValueError(typed) = 5 /\ ConfigIsPositive(cfg')
       THEN /\ pc' = "pomodoro_call"
            /\ last_op' = [op |-> "config_accepted", arg |-> current_daily_activity]
       ELSE /\ pc' = "config_prompt"
            /\ last_op' = [op |-> "config_rejected", arg |-> current_daily_activity]
    /\ UNCHANGED << now, ledgerVars, ledgerHistory, accumulated_times, menu_choice, completed_phases, started_phases, simpleVars,
                    total_specific_category_times, sessionVars, cycle_i,
                    current_set_pomodoros, current_set_short_breaks,
                    current_set_long_breaks, phaseVars, resultVars, phaseHistory >>

\* main, lines 1085-1090: the simple-timer option, up to the call.
MenuSimpleTimer ==
    /\ pc = "menu"
    /\ pc' = "simple_timer_call"
    /\ last_op' = [op |-> "simple_timer_option", arg |-> current_daily_activity]
    /\ UNCHANGED << now, ledgerVars, ledgerHistory, accumulated_times, timerVars >>

\* main from its start to the call of a timer: the initial selection, the
\* menu's options and an interruption that escapes main.
NextMain ==
    \/ \E d \in MainClockSteps : AdvanceClock(d)
    \/ \E c \in CategoryChoices : InitialSelection(c)
    \/ \E typed \in TypedChoices : MenuInvalidChoice(typed)
    \/ \E typed \in TypedChoices, c \in CategoryChoices :
          MenuChoice(typed, "change") /\ MenuChangeActivity(c)
    \/ \E typed \in TypedChoices, a \in {"s", "n"} :
          MenuChoice(typed, "pomodoro") /\ MenuPomodoro(a)
    \/ \E typed \in TypedConfigs : ConfigEntry(typed)
    \/ \E typed \in TypedChoices : MenuChoice(typed, "simple_timer") /\ MenuSimpleTimer
    \/ \E typed \in TypedChoices : MenuChoice(typed, "specific_summary") /\ MenuSpecificSummary
    \/ \E typed \in TypedChoices : MenuChoice(typed, "refresh") /\ MenuRefresh
    \/ \E typed \in TypedChoices : MenuChoice(typed, "daily_summary") /\ MenuDailySummary
    \/ SummaryReturn
    \/ \E typed \in TypedChoices : MenuChoice(typed, "exit") /\ MenuExit
    \/ MenuInterrupt
    \/ MenuInterruptResume
    \/ AbruptExit

SpecMain == Init /\ [][NextMain]_vars

\* -------------------------------------------------------- run_simple_timer
\* The up-timer of the model is followed for MaxUpSeconds counted seconds.
MaxUpSeconds == 62

\* Lines 617-618: if not is_paused: current_elapsed_seconds += 1.
ElapsedAfterTick(seconds, paused) == IF paused THEN seconds ELSE seconds + 1

\* Mutant: a started minute counts as a whole one.
SimpleElapsedMinutes_RoundUp(seconds) == (seconds + SecondsPerMinute - 1) \div SecondsPerMinute

\* Line 623: elapsed_minutes = int(current_elapsed_seconds / 60).
SimpleElapsedMinutes(seconds) == seconds \div SecondsPerMinute

\* Lines 575-585: the call; the counter starts at 0, not paused.
SimpleTimerStart ==
    /\ pc = "simple_timer_call"
    /\ pc' = "simple_timer"
    /\ current_elapsed_seconds' = 0
    /\ is_paused' = FALSE
    /\ unpaused_ticks' = 0
    /\ last_op' = [op |-> "simple_start", arg |-> NoneCat]
    /\ UNCHANGED << now, ledgerVars, ledgerHistory, accumulated_times, menu_choice, completed_phases, started_phases,
                    total_specific_category_times, sessionVars, schedVars, phase_name,
                    duration_seconds, current_seconds, start_time_phase, resultVars,
                    n_toggles, n_paused_ticks, measured_at, elapsed_minutes_simple >>

\* Lines 587-618: one pass of the while True loop in which Enter is not
\* pressed; any other key is read and ignored (lines 612-613).
SimpleTick(other_key) ==
    /\ pc = "simple_timer"
    /\ current_elapsed_seconds < MaxUpSeconds
    /\ is_paused => n_paused_ticks < MaxPausedTicks
    /\ now' = now + SlicesPerTick
    /\ current_elapsed_seconds' = ElapsedAfterTick(current_elapsed_seconds, is_paused)
    /\ unpaused_ticks' = IF is_paused THEN unpaused_ticks ELSE unpaused_ticks + 1
    /\ n_paused_ticks' = IF is_paused THEN n_paused_ticks + 1 ELSE n_paused_ticks
    /\ last_op' = [op |-> IF other_key THEN "simple_other_key" ELSE "simple_tick",
                   arg |-> NoneCat]
    /\ UNCHANGED << pc, ledgerVars, ledgerHistory, accumulated_times, menu_choice, completed_phases, started_phases,
                    total_specific_category_times, sessionVars, schedVars, phase_name,
                    duration_seconds, current_seconds, start_time_phase, is_paused,
                    resultVars, n_toggles, measured_at, elapsed_minutes_simple >>

\* Lines 605-611, 617-618: Enter in polling slice k flips the pause flag and
\* ends the polling of this pass; the counter then advances if not paused.
SimpleEnter(k) ==
    /\ pc = "simple_timer"
    /\ current_elapsed_seconds < MaxUpSeconds
    /\ n_toggles < MaxToggles
    /\ now' = now + k
    /\ is_paused' = PausedAfterEnter(is_paused)
    /\ current_elapsed_seconds' = ElapsedAfterTick(current_elapsed_seconds, is_paused')
    /\ unpaused_ticks' = IF is_paused' THEN unpaused_ticks ELSE unpaused_ticks + 1
    /\ n_toggles' = n_toggles + 1
    /\ last_op' = [op |-> "simple_toggle", arg |-> NoneCat]
    /\ UNCHANGED << pc, ledgerVars, ledgerHistory, accumulated_times, menu_choice, completed_phases, started_phases,
                    total_specific_category_times, sessionVars, schedVars, phase_name,
                    duration_seconds, current_seconds, start_time_phase, resultVars,
                    n_paused_ticks, measured_at, elapsed_minutes_simple >>

\* Lines 620-626: Ctrl+C in polling slice k of the loop; the handler asks
\* whether to add the time.
SimpleInterrupt(k) ==
    /\ pc = "simple_timer"
    /\ now' = now + k
    /\ pc' = "simple_prompt"
    /\ last_op' = [op |-> "simple_interrupt", arg |-> NoneCat]
    /\ UNCHANGED << ledgerVars, ledgerHistory, accumulated_times, menu_choice, completed_phases, started_phases, simpleVars,
                    total_specific_category_times, sessionVars, schedVars, phaseVars,
                    resultVars, phaseHistory >>

\* Lines 626-645: the answer to the handler's question, and the answer to
\* the subcategory prompt when the time is kept; run_simple_timer returns.
SimpleAnswer(choice, opcion) ==
    /\ pc = "simple_prompt"
    /\ LET minutes == SimpleElapsedMinutes(current_elapsed_seconds)
           sub == prompt_specific_work_category(daily_activity_name, opcion)
       IN IF choice = "c"
          THEN /\ elapsed_minutes_simple' = 0
               /\ last_op' = [op |-> "simple_discard", arg |-> NoneCat]
               /\ UNCHANGED total_specific_category_times
          ELSE /\ sub # "retry"
               /\ elapsed_minutes_simple' = minutes
               /\ last_op' = [op |-> "simple_keep", arg |-> sub]
               /\ total_specific_category_times' =
                     IF HasSubcategories(daily_activity_name) /\ sub # NoneCat
                     THEN assign_time_to_specific_category(
                              total_specific_category_times, minutes, sub)
                     ELSE total_specific_category_times
    /\ now' = now + UnitsPerSecond
    /\ pc' = "simple_returned"
    /\ UNCHANGED << ledgerVars, ledgerHistory, accumulated_times, menu_choice, completed_phases, started_phases,
                    current_elapsed_seconds, sessionVars, schedVars, phaseVars,
                    resultVars, phaseHistory >>

\* Ctrl+C at the handler's own prompt (line 626) or at the subcategory prompt
\* (line 257): nothing catches it inside run_simple_timer, main's handler
\* (lines 1164-1168) goes back to the menu.
SimpleInterruptAtPrompt ==
    /\ pc = "simple_prompt"
    /\ now' = now + UnitsPerSecond
    /\ pc' = "menu"
    /\ last_op' = [op |-> "simple_run_interrupted", arg |-> NoneCat]
    /\ UNCHANGED << ledgerVars, ledgerHistory, accumulated_times, menu_choice, completed_phases, started_phases, simpleVars,
                    total_specific_category_times, sessionVars, schedVars, phaseVars,
                    resultVars, phaseHistory >>

\* main, lines 1094-1104: the result is shown and Enter goes back to the menu.
SimpleReturnToMain ==
    /\ pc = "simple_returned"
    /\ pc' = "menu"
    /\ last_op' = [op |-> "simple_returned", arg |-> NoneCat]
    /\ last_activity_start_time' = StartAfterTimerRun(last_activity_start_time, now)
    /\ UNCHANGED << now, daily_activity_log, current_daily_activity, ledgerHistory, accumulated_times, menu_choice, completed_phases, started_phases, simpleVars,
                    total_specific_category_times, sessionVars, schedVars, phaseVars,
                    resultVars, phaseHistory >>

\* The subcategory totals when the up-timer is called: those of a fresh
\* session and those left by an earlier credit.
PriorSubcategoryTotals ==
    { [k \in SUBCATEGORIES |-> 0],
      [k \in SUBCATEGORIES |-> IF k = "Matemáticas" THEN 25 ELSE 0] }

\* main at the call of run_simple_timer (line 1088): a category with
\* subcategories is current (line 936).
InitSimpleTimer ==
    /\ now = 0
    /\ pc = "simple_timer_call"
    /\ daily_activity_log = << >>
    /\ current_daily_activity \in {"Estudio", "Lectura"}
    /\ last_activity_start_time = 0
    /\ total_specific_category_times \in PriorSubcategoryTotals
    /\ total_pomodoros_session = 0
    /\ total_short_breaks_session = 0
    /\ total_long_breaks_session = 0
    /\ TimerIdle
    /\ first_set_time = 0
    /\ discarded_units = 0
    /\ n_changes = 1
    /\ accumulated_times = NoSummary
    /\ menu_choice = NoChoice
    /\ last_op = [op |-> "start", arg |-> NoneCat]

NextSimpleTimer ==
    \/ SimpleTimerStart
    \/ \E other_key \in BOOLEAN : SimpleTick(other_key)
    \/ \E k \in KeySlices : SimpleEnter(k)
    \/ \E k \in KeySlices : SimpleInterrupt(k)
    \/ \E choice \in {"s", "c"}, o \in SubcategoryChoices : SimpleAnswer(choice, o)
    \/ SimpleInterruptAtPrompt
    \/ SimpleReturnToMain

SpecSimpleTimer == InitSimpleTimer /\ [][NextSimpleTimer]_vars

\* The two timers together: either option of the menu has been chosen and its
\* function is called (lines 1061 and 1088).
InitTimers == InitPomodoro \/ InitSimpleTimer

NextTimers == NextPomodoro \/ NextSimpleTimer

SpecTimers == InitTimers /\ [][NextTimers]_vars

\* ------------------------------------------------- the timers with progress
\* Enter is read while the timer is paused: the pause is taken back.
Resume == is_paused /\ \E k \in KeySlices : TickEnter(k)

\* The first run of a session with either timer.
InitProgress ==
    \/ InitPomodoro /\ total_pomodoros_session = 0
    \/ InitSimpleTimer /\ current_daily_activity = "Estudio"

\* The timers without an interruption that escapes to main: a Ctrl+C inside
\* the tick loop is answered at the handler's prompt, the subcategory prompt
\* is answered with 0, and Enter is typed at the prompts between the phases.
NextProgress ==
    \/ RunPomodoroStart
    \/ TickIdle
    \/ \E k \in KeySlices : TickEnter(k)
    \/ \E k \in KeySlices : AtKeyPoint /\ TickQ(k)
    \/ \E a \in {"s", "n"} : EarlyEndAnswer(a)
    \/ \E k \in KeySlices : AtKeyPoint /\ Interrupt(k)
    \/ \E c \in {"c", "s"}, w \in PromptWaits : InterruptAnswer(c, w)
    \/ CountdownComplete(FALSE)
    \/ ProcessWorkOutcome(0)
    \/ ProcessBreakOutcome
    \/ ReturnToMain
    \/ SimpleTimerStart
    \/ SimpleTick(FALSE)
    \/ \E k \in KeySlices : SimpleEnter(k)
    \/ \E k \in KeySlices : SimpleInterrupt(k)
    \/ \E a \in {"s", "c"} : SimpleAnswer(a, 0)
    \/ SimpleReturnToMain

\* What goes on by itself: the tick loops sleep and iterate (lines 381-412,
\* 600-618), the code after the countdown loop runs (lines 414-429), and the
\* timer functions begin when called. What the user is taken to do: resume a
\* pause, answer the questions of a phase, and type Enter or an answer at the
\* prompts between the phases and after the run.
ProgressFairness ==
    /\ WF_vars(TickIdle)
    /\ WF_vars(CountdownComplete(FALSE))
    /\ WF_vars(RunPomodoroStart)
    /\ WF_vars(SimpleTimerStart)
    /\ WF_vars(SimpleTick(FALSE))
    /\ WF_vars(Resume)
    /\ WF_vars(\E a \in {"s", "n"} : EarlyEndAnswer(a))
    /\ WF_vars(\E c \in {"c", "s"}, w \in PromptWaits : InterruptAnswer(c, w))
    /\ WF_vars(ProcessWorkOutcome(0))
    /\ WF_vars(ProcessBreakOutcome)
    /\ WF_vars(ReturnToMain)

SpecProgress == InitProgress /\ [][NextProgress]_vars /\ ProgressFairness

\* ------------------------------------------ assign_time_to_specific_category
\* Calls are followed while the minutes credited in all stay within this bound.
MaxAssignedMinutes == 140

\* The arguments of the calls: no minutes, a default pomodoro's worth and a
\* long one; every known subcategory and one that is not a key of the dict.
AssignMinutes == {0, 25, 90}
AssignSubcategories == SUBCATEGORIES \cup {"Dibujo"}

RECURSIVE SumTotals(_)
\* The minutes credited in all.
SumTotals(totals) ==
    IF DOMAIN totals = {} THEN 0
    ELSE LET k == CHOOSE x \in DOMAIN totals : TRUE
         IN totals[k] + SumTotals([j \in DOMAIN totals \ {k} |-> totals[j]])

\* One call assign_time_to_specific_category(duration_minutes, specific_category).
CallAssign(duration_minutes, specific_category) ==
    /\ pc = "assign"
    /\ SumTotals(total_specific_category_times) + duration_minutes <= MaxAssignedMinutes
    /\ total_specific_category_times' =
          assign_time_to_specific_category(total_specific_category_times,
                                           duration_minutes, specific_category)
    /\ last_op' = [op |-> "assign", arg |-> specific_category,
                   minutes |-> duration_minutes]
    /\ UNCHANGED << now, pc, ledgerVars, ledgerHistory, accumulated_times, menu_choice, completed_phases, started_phases, simpleVars,
                    sessionVars, schedVars, phaseVars, resultVars, phaseHistory >>

\* A session in which one segment is logged and a category with
\* subcategories is current, before any credit.
InitAssign ==
    /\ now = 2 * UnitsPerSecond
    /\ pc = "assign"
    /\ daily_activity_log = << SegmentRecord("Desayuno", 0, 2 * UnitsPerSecond) >>
    /\ current_daily_activity = "Estudio"
    /\ last_activity_start_time = 2 * UnitsPerSecond
    /\ total_specific_category_times = [k \in SUBCATEGORIES |-> 0]
    /\ total_pomodoros_session = 0
    /\ total_short_breaks_session = 0
    /\ total_long_breaks_session = 0
    /\ TimerIdle
    /\ first_set_time = 0
    /\ discarded_units = 0
    /\ n_changes = 2
    /\ accumulated_times = NoSummary
    /\ menu_choice = NoChoice
    /\ last_op = [op |-> "start", arg |-> NoneCat]

NextAssign ==
    \E m \in AssignMinutes, sub \in AssignSubcategories : CallAssign(m, sub)

SpecAssign == InitAssign /\ [][NextAssign]_vars

\* ------------------------------------------------------------ ledger claims
RECURSIVE SumDurations(_)
SumDurations(log) ==
    IF log = << >> THEN 0 ELSE log[1].duration + SumDurations(Tail(log))

LiveDuration ==
    IF current_daily_activity # NoneCat /\ last_activity_start_time # NoneTime
    THEN now - last_activity_start_time
    ELSE 0

IsPrefix(s, t) == Len(s) <= Len(t) /\ SubSeq(t, 1, Len(s)) = s

\* A step that is a call of change_current_daily_activity(arg).
IsChangeCall(arg) == last_op' = [op |-> "change", arg |-> arg] /\ now' = now

C2_BothOrNeither ==
    (current_daily_activity = NoneCat) <=> (last_activity_start_time = NoneTime)

\* The segment was closed by the exit option after a session with a logged segment.
C2_Witness ==
    /\ pc = "exited"
    /\ current_daily_activity = NoneCat
    /\ last_activity_start_time = NoneTime
    /\ Len(daily_activity_log) >= 1

\* C3: a call of change_current_daily_activity(X) while X is the current
\* category changes neither the log, nor the current category, nor the start
\* of the open segment (so repeating it changes nothing either).
C3_SameCategoryNoOp ==
    [][ (current_daily_activity # NoneCat /\ IsChangeCall(current_daily_activity))
            => UNCHANGED ledgerVars ]_vars

\* The last operation was a call with the current category, made after the
\* open segment had already run for a while, with a segment in the log.
C3_Witness ==
    /\ last_op = [op |-> "change", arg |-> current_daily_activity]
    /\ current_daily_activity # NoneCat
    /\ last_activity_start_time < now
    /\ Len(daily_activity_log) >= 1

\* C4: a call with a different category (or None) that closes an open segment
\* of at least one second appends exactly one record, {category: the previous
\* current category, start: the previous segment start, end: now, duration:
\* end - start}; a new category that is not None becomes current with segment
\* start = now.
C4_CloseAppendsOneRecord ==
    [][ \A arg \in InputCategories \cup {NoneCat} :
          ( /\ IsChangeCall(arg)
            /\ current_daily_activity # NoneCat
            /\ arg # current_daily_activity
            /\ now - last_activity_start_time >= UnitsPerSecond )
          => /\ daily_activity_log' = Append(daily_activity_log,
                    [category |-> current_daily_activity,
                     start |-> last_activity_start_time,
                     end |-> now,
                     duration |-> now - last_activity_start_time])
             /\ (arg # NoneCat =>
                    /\ current_daily_activity' = arg
                    /\ last_activity_start_time' = now) ]_vars

\* A switch has just closed a segment of more than a second and opened the next.
C4_Witness ==
    /\ last_op.op = "change"
    /\ Len(daily_activity_log) >= 1
    /\ daily_activity_log[Len(daily_activity_log)].end = now
    /\ daily_activity_log[Len(daily_activity_log)].duration > UnitsPerSecond
    /\ current_daily_activity # NoneCat
    /\ last_activity_start_time = now

\* C5: sub-second discard. A switch made less than one second after the switch
\* that opened the current segment appends nothing to the log, and still takes
\* effect: the new category becomes current with segment start = now (None
\* clears both).
C5_SubSecondDiscard ==
    [][ \A arg \in InputCategories \cup {NoneCat} :
          ( /\ IsChangeCall(arg)
            /\ current_daily_activity # NoneCat
            /\ arg # current_daily_activity
            /\ now - last_activity_start_time < UnitsPerSecond )
          => /\ daily_activity_log' = daily_activity_log
             /\ current_daily_activity' = arg
             /\ last_activity_start_time' = (IF arg = NoneCat THEN NoneTime ELSE now) ]_vars

\* Two switches 0.4 s apart after the first category was set: nothing logged,
\* the fragment discarded, the second category current from now.
C5_Witness ==
    /\ last_op.op = "change"
    /\ daily_activity_log = << >>
    /\ discarded_units > 0
    /\ discarded_units = now - first_set_time
    /\ current_daily_activity # NoneCat
    /\ last_activity_start_time = now

\* Consecutive records: starts ascending, the earlier ends before the later starts.
NonOverlapping(log) ==
    \A k \in 1..(Len(log) - 1) :
        /\ log[k].start <= log[k + 1].start
        /\ log[k].end <= log[k + 1].start

\* C6: the log is append-only and non-overlapping. No step modifies or removes
\* a record, records are appended in ascending order of start, and of two
\* consecutive records the earlier ends no later than the later starts.
C6_AppendOnlyNonOverlapping ==
    [][ /\ IsPrefix(daily_activity_log, daily_activity_log')
        /\ Len(daily_activity_log') <= Len(daily_activity_log) + 1
        /\ NonOverlapping(daily_activity_log') ]_vars

\* Three records in the log, the last one just appended.
C6_Witness ==
    /\ Len(daily_activity_log) >= 3
    /\ daily_activity_log[Len(daily_activity_log)].end = now
    /\ last_op.op = "change"

\* ---------------------------------------------------------- scheduler claims
\* A step in which run_pomodoro processes a work phase that returned Completed.
IsCompletedWorkStep ==
    /\ pc = "phase_returned"
    /\ IsWorkPhase(phase_name)
    /\ outcome = "completed"
    /\ last_op'.op = "work_outcome"

\* C7: for every work phase of run_pomodoro that ends Completed, the run's
\* pomodoro counter increases by exactly 1 and exactly work_minutes (the full
\* configured duration, whatever time was spent paused) is added to the chosen
\* subcategory and to no other; nothing is added to any subcategory when none
\* is chosen.
C7_CompletedWorkCredit ==
    [][ IsCompletedWorkStep =>
          /\ current_set_pomodoros' = current_set_pomodoros + 1
          /\ LET chosen == last_op'.arg IN
             total_specific_category_times' =
                IF chosen = NoneCat THEN total_specific_category_times
                ELSE [total_specific_category_times EXCEPT
                        ![chosen] = @ + cfg.work_minutes] ]_vars

\* The second completed work phase of a run that was paused for a whole tick
\* has just been credited to the subcategory that already held the first.
C7_Witness ==
    /\ last_op = [op |-> "work_outcome", arg |-> "Programación"]
    /\ current_set_pomodoros = 2
    /\ n_paused_ticks > 0
    /\ total_specific_category_times["Programación"] = 2 * cfg.work_minutes

\* --------------------------------------------------------- countdown claims
AbnormalOutcomes ==
    {"early_end_registered", "early_end_not_registered",
     "user_cancelled_all", "user_skip_phase"}

\* C8 as stated: every outcome returned by countdown_period carries
\* elapsedSeconds that is at most the configured duration of the phase.
C8_ElapsedAtMostDuration ==
    outcome # "None" => elapsed_seconds <= duration_seconds

\* C8 as amended: a Completed outcome carries exactly the configured duration;
\* an early-end or interruption outcome carries the whole seconds of clock
\* time between the start of the phase and the moment the elapsed time was
\* read (paused time included), which the configured duration does not bound.
C8_ElapsedByOutcome ==
    /\ outcome = "completed" => elapsed_seconds = duration_seconds
    /\ outcome \in AbnormalOutcomes =>
          /\ measured_at <= now
          /\ elapsed_seconds * UnitsPerSecond <= measured_at - start_time_phase
          /\ measured_at - start_time_phase < (elapsed_seconds + 1) * UnitsPerSecond

\* A work phase ended early after pauses, with more elapsed than configured.
C8_Witness ==
    /\ outcome = "early_end_registered"
    /\ n_paused_ticks > 0
    /\ elapsed_seconds > duration_seconds

\* A step that is one iteration of the countdown loop.
IsTick == pc = "countdown" /\ current_seconds >= 0 /\ last_op'.op = "tick"

IsToggleTick == IsTick /\ last_op'.arg = "enter" /\ n_toggles' = n_toggles + 1

\* C10 as stated: on a tick in which a toggle-pause signal is received the
\* pause flag is flipped and current_seconds is neither decremented nor
\* incremented, both when pausing and when resuming.
C10_ToggleKeepsCounter ==
    [][ IsToggleTick =>
          /\ is_paused' = ~is_paused
          /\ current_seconds' = current_seconds ]_vars

\* C10 as amended: on a tick in which a toggle-pause signal is received the
\* pause flag is flipped; when the toggle pauses the phase current_seconds is
\* unchanged on that tick, and when it resumes the phase current_seconds is
\* decremented by exactly 1 on that tick.
C10_ToggleFlipsAndResumeDecrements ==
    [][ IsToggleTick =>
          /\ is_paused' = ~is_paused
          /\ current_seconds' = (IF is_paused THEN current_seconds - 1
                                 ELSE current_seconds) ]_vars

\* The last tick read Enter and resumed a phase that had been paused.
C10_Witness ==
    /\ pc = "countdown"
    /\ last_op = [op |-> "tick", arg |-> "enter"]
    /\ ~is_paused
    /\ n_toggles = 2
    /\ current_seconds < duration_seconds

\* C11 as stated: a phase that yields Completed has ended after exactly D
\* decrementing ticks, D being its configured duration, unpaused, and carries
\* elapsedSeconds equal to D.
C11_CompletedAfterDTicks ==
    outcome = "completed" =>
        /\ unpaused_ticks = duration_seconds
        /\ ~is_paused
        /\ elapsed_seconds = duration_seconds

\* C11 as amended: the loop runs one more iteration with the counter at 0 and
\* ends when the counter goes below 0, which takes exactly D + 1 decrementing
\* ticks and leaves the phase unpaused; the phase then yields Completed with
\* elapsedSeconds equal to D, unless an interruption arrives during the
\* end-of-phase notice. Completed is yielded in no other way.
C11_CompletedAfterLoopEnd ==
    [][ /\ (pc = "countdown" /\ current_seconds < 0) =>
              /\ current_seconds = -1
              /\ ~is_paused
              /\ unpaused_ticks = duration_seconds + 1
              /\ \/ outcome' = "completed" /\ elapsed_seconds' = duration_seconds
                 \/ pc' = "interrupt_prompt"
        /\ (outcome # "completed" /\ outcome' = "completed") =>
              (pc = "countdown" /\ current_seconds < 0) ]_vars

\* A phase has been completed after a pause, by one more decrementing tick
\* than its duration in seconds.
C11_Witness ==
    /\ outcome = "completed"
    /\ last_op.op = "complete"
    /\ n_paused_ticks > 0
    /\ unpaused_ticks = duration_seconds + 1
    /\ elapsed_seconds = duration_seconds

\* A step in which 'q' ends a work phase.
IsEarlyEndKey == InLoop /\ IsWorkPhase(phase_name) /\ last_op'.arg = "q"

\* C12 as stated: when a work phase is ended early with a measured elapsed
\* time under 60 seconds the keep/discard decision is skipped and the outcome
\* is never EarlyEndRegistered.
C12_SubMinuteSkipsDecision ==
    /\ pc = "early_end_prompt" => elapsed_seconds >= SecondsPerMinute
    /\ outcome = "early_end_registered" => elapsed_seconds >= SecondsPerMinute

\* C12 as amended: the decision is skipped, with outcome EarlyEndDiscarded and
\* elapsedSeconds 0, exactly when the measured elapsed time is under 1 whole
\* second; from 1 second on the decision is asked and its answer gives the
\* outcome, EarlyEndRegistered included, with the measured elapsed time.
C12_SubSecondSkipsDecision ==
    [][ /\ IsEarlyEndKey =>
              IF ElapsedSeconds(start_time_phase, measured_at') = 0
              THEN /\ pc' = "phase_returned"
                   /\ outcome' = "early_end_not_registered"
                   /\ elapsed_seconds' = 0
              ELSE /\ pc' = "early_end_prompt"
                   /\ elapsed_seconds' = ElapsedSeconds(start_time_phase, measured_at')
                   /\ elapsed_seconds' >= 1
        /\ (pc = "early_end_prompt" /\ last_op'.op = "early_end_answer") =>
              /\ outcome' = (IF last_op'.arg = "s" THEN "early_end_registered"
                             ELSE "early_end_not_registered")
              /\ elapsed_seconds' = elapsed_seconds ]_vars

\* A work phase ended early after less than a minute has been registered.
C12_Witness ==
    /\ outcome = "early_end_registered"
    /\ last_op = [op |-> "early_end_answer", arg |-> "s"]
    /\ elapsed_seconds >= 1
    /\ elapsed_seconds < SecondsPerMinute

\* run_pomodoro is about to process, or processes in this step, the outcome
\* of a work phase.
AtWorkOutcome == pc = "phase_returned" /\ IsWorkPhase(phase_name)

IsWorkOutcomeStep ==
    AtWorkOutcome /\ last_op'.op \in {"work_outcome", "work_outcome_interrupted"}

EarlyEndOutcomes == {"early_end_registered", "early_end_not_registered"}

\* C13: an early-terminated work phase whose measured elapsed time is under
\* 60 seconds never leads to the subcategory prompt and never changes a
\* subcategory total (nor the pomodoro counter), whichever keep/discard
\* answer was given.
C13_SubMinuteEarlyEndCreditsNothing ==
    [][ (AtWorkOutcome /\ outcome \in EarlyEndOutcomes
           /\ elapsed_seconds < SecondsPerMinute) =>
          /\ ~PromptsSubcategory(outcome, elapsed_seconds, daily_activity_name)
          /\ IsWorkOutcomeStep =>
                /\ last_op'.arg = NoneCat
                /\ total_specific_category_times' = total_specific_category_times
                /\ current_set_pomodoros' = current_set_pomodoros ]_vars

\* The first work phase was ended early before its first minute was over, its
\* outcome has been processed without a credit and the break has begun.
C13_Witness ==
    /\ pc = "countdown"
    /\ ~IsWorkPhase(phase_name)
    /\ cycle_i = 1
    /\ last_op = [op |-> "work_outcome", arg |-> NoneCat]
    /\ start_time_phase = now
    /\ now > (2 + 1 + 1) * UnitsPerSecond
    /\ now < (2 + SecondsPerMinute) * UnitsPerSecond
    /\ \A k \in DOMAIN total_specific_category_times :
          total_specific_category_times[k] = 0

\* The break of cycle i has just been started by this step.
BreakOfCycleStarts(i) ==
    /\ pc' = "countdown"
    /\ cycle_i' = i
    /\ phase_name' = (IF i % cfg.num_cycles = 0 THEN "DESCANSO LARGO"
                      ELSE "DESCANSO CORTO")
    /\ current_seconds' = duration_seconds'
    /\ outcome' = "None"

\* C14: for a work phase with outcome EarlyEndRegistered run_pomodoro adds
\* exactly floor(elapsedSeconds / 60) minutes to the chosen subcategory (to
\* none when none is chosen) and does not increment the pomodoro counter; with
\* EarlyEndDiscarded it credits nothing and increments no counter; in both
\* cases the phase the run starts next is the break of the same cycle.
C14_EarlyEndCredit ==
    [][ (IsWorkOutcomeStep /\ outcome \in EarlyEndOutcomes) =>
          /\ LET chosen == last_op'.arg IN
             total_specific_category_times' =
                IF outcome = "early_end_registered" /\ chosen # NoneCat
                THEN [total_specific_category_times EXCEPT
                        ![chosen] = @ + (elapsed_seconds \div 60)]
                ELSE total_specific_category_times
          /\ outcome = "early_end_not_registered" => last_op'.arg = NoneCat
          /\ UNCHANGED << current_set_pomodoros, current_set_short_breaks,
                          current_set_long_breaks >>
          /\ last_op'.op = "work_outcome" => BreakOfCycleStarts(cycle_i) ]_vars

\* The first work phase was paused, ended early at its last tick and kept: one
\* minute went to the chosen subcategory, no pomodoro was counted and the
\* break of the first cycle has begun.
C14_Witness ==
    /\ pc = "countdown"
    /\ ~IsWorkPhase(phase_name)
    /\ cycle_i = 1
    /\ last_op = [op |-> "work_outcome", arg |-> "Matemáticas"]
    /\ current_set_pomodoros = 0
    /\ n_paused_ticks > 0
    /\ cfg.work_minutes = 1
    /\ total_specific_category_times["Matemáticas"] = 1

InBreakPhase ==
    /\ pc \in {"countdown", "interrupt_prompt", "phase_returned"}
    /\ phase_name \in {"DESCANSO CORTO", "DESCANSO LARGO"}

\* C15: in a run of N cycles the break that follows the work phase of cycle i
\* is a long break if and only if i mod N = 0, that is only in the last cycle,
\* and a short break otherwise, each with its configured duration; with N = 1
\* the single break is long.
C15_LongBreakOnlyInLastCycle ==
    InBreakPhase =>
        /\ cycle_i \in 1..cfg.num_cycles
        /\ phase_name = "DESCANSO LARGO" <=> cycle_i % cfg.num_cycles = 0
        /\ phase_name = "DESCANSO LARGO" <=> cycle_i = cfg.num_cycles
        /\ duration_seconds =
              (IF cycle_i = cfg.num_cycles THEN cfg.long_break_minutes
               ELSE cfg.short_break_minutes) * 60

\* The long break of the second and last cycle runs after the short break of
\* the first cycle was completed.
C15_Witness ==
    /\ pc = "countdown"
    /\ phase_name = "DESCANSO LARGO"
    /\ cfg.num_cycles = 2
    /\ cycle_i = 2
    /\ current_set_short_breaks = 1
    /\ current_set_long_breaks = 0

\* The single break of a one-cycle run is long.
C15_SingleCycleWitness ==
    /\ pc = "countdown"
    /\ phase_name = "DESCANSO LARGO"
    /\ cfg.num_cycles = 1
    /\ cycle_i = 1

InPhase == pc \in {"countdown", "early_end_prompt", "interrupt_prompt"}

\* C16: once a work or break phase of cycle k yields CancelledAll,
\* run_pomodoro returns immediately: no phase of cycle k or of a later cycle
\* is started afterwards, and the counters it returns, which main adds to the
\* session totals, are the counters as they stood when the cancelled phase
\* began (no step of a phase changes them).
C16_CancellationShortCircuits ==
    [][ /\ InPhase =>
              UNCHANGED << current_set_pomodoros, current_set_short_breaks,
                           current_set_long_breaks, total_specific_category_times >>
        /\ (pc = "phase_returned" /\ outcome = "user_cancelled_all") =>
              /\ pc' = "pomodoro_returned"
              /\ now' = now
              /\ UNCHANGED << current_set_pomodoros, current_set_short_breaks,
                              current_set_long_breaks, total_specific_category_times,
                              cycle_i, phaseVars, resultVars >>
        /\ pc = "pomodoro_returned" =>
              /\ pc' = "menu"
              /\ total_pomodoros_session' = total_pomodoros_session + current_set_pomodoros
              /\ total_short_breaks_session' =
                    total_short_breaks_session + current_set_short_breaks
              /\ total_long_breaks_session' =
                    total_long_breaks_session + current_set_long_breaks
              /\ UNCHANGED << cycle_i, phaseVars, resultVars >>
        /\ pc = "menu" => UNCHANGED << cycle_i, phaseVars, resultVars >> ]_vars

\* The short break of cycle 1 of a two-cycle run was cancelled after the
\* work phase of that cycle was completed: the run has returned to main with
\* one pomodoro and nothing from cycle 2.
C16_Witness ==
    /\ pc = "menu"
    /\ last_op.op = "run_returned"
    /\ outcome = "user_cancelled_all"
    /\ phase_name = "DESCANSO CORTO"
    /\ cfg.num_cycles = 2
    /\ cycle_i = 1
    /\ total_pomodoros_session = 1
    /\ total_short_breaks_session = 0
    /\ total_long_breaks_session = 0

\* C17: when the work phase of cycle i yields SkipPhase, run_pomodoro credits
\* no minutes and increments no counter, does not run the break of cycle i,
\* and goes on with the work phase of cycle i + 1, or returns when i is the
\* last cycle.
C17_SkippedWorkSkipsBreak ==
    [][ (IsWorkOutcomeStep /\ outcome = "user_skip_phase") =>
          /\ last_op'.arg = NoneCat
          /\ UNCHANGED << total_specific_category_times, current_set_pomodoros,
                          current_set_short_breaks, current_set_long_breaks >>
          /\ last_op'.op = "work_outcome" =>
                IF cycle_i < cfg.num_cycles
                THEN /\ pc' = "countdown"
                     /\ phase_name' = "TRABAJO"
                     /\ cycle_i' = cycle_i + 1
                     /\ duration_seconds' = cfg.work_minutes * 60
                     /\ current_seconds' = duration_seconds'
                     /\ outcome' = "None"
                ELSE /\ pc' = "pomodoro_returned"
                     /\ UNCHANGED << cycle_i, phaseVars >> ]_vars

\* The work phase of cycle 1 was skipped and the work phase of cycle 2 has
\* begun, no break having been run in between.
C17_Witness ==
    /\ pc = "countdown"
    /\ phase_name = "TRABAJO"
    /\ cycle_i = 2
    /\ last_op = [op |-> "work_outcome", arg |-> NoneCat]
    /\ start_time_phase = now
    /\ current_set_pomodoros = 0
    /\ current_set_short_breaks = 0

\* The work phase of the last cycle was skipped and the run has returned.
C17_LastCycleWitness ==
    /\ pc = "pomodoro_returned"
    /\ phase_name = "TRABAJO"
    /\ outcome = "user_skip_phase"
    /\ cycle_i = cfg.num_cycles
    /\ last_op.op = "work_outcome"

\* The positions of a scheduler run, from the call of run_pomodoro to the
\* processing of a phase outcome.
RunPcs == {"pomodoro_call", "countdown", "early_end_prompt", "interrupt_prompt",
           "phase_returned"}

\* Every cycle of the run has been processed: the last cycle's break has
\* returned, or its work phase was skipped.
AllCyclesProcessed ==
    /\ pc = "phase_returned"
    /\ cycle_i = cfg.num_cycles
    /\ ~IsWorkPhase(phase_name) \/ outcome = "user_skip_phase"

InterruptionOps ==
    {"interrupt", "run_interrupted", "work_outcome_interrupted",
     "break_outcome_interrupted"}

\* C18 as stated: during a scheduler run every interruption is recoverable:
\* the run stops before all cycles are processed only through a CancelledAll
\* outcome, and an interruption arriving at any other point of the run,
\* between phases included, lets the run continue.
C18_OnlyCancelledAllStopsRun ==
    [][ /\ (pc \in RunPcs /\ pc' \notin RunPcs) =>
              (outcome = "user_cancelled_all" \/ AllCyclesProcessed)
        /\ (pc \in RunPcs /\ last_op'.op \in InterruptionOps) =>
              pc' \in RunPcs ]_vars

\* The first work phase of a two-cycle run was completed and credited, Ctrl+C
\* arrived at the prompt before the break, and main is back at its menu: the
\* run is over without a CancelledAll outcome and its pomodoro is in no
\* session total.
C18_Witness ==
    /\ pc = "menu"
    /\ last_op = [op |-> "work_outcome_interrupted", arg |-> "Programación"]
    /\ outcome = "completed"
    /\ cfg.num_cycles = 2
    /\ cycle_i = 1
    /\ current_set_pomodoros = 1
    /\ total_pomodoros_session = 0
    /\ total_specific_category_times["Programación"] = cfg.work_minutes

\* ------------------------------------------------------------- exit claims
\* The sum of the durations of the logged segments of category c.
RECURSIVE LoggedFor(_, _)
LoggedFor(log, c) ==
    IF log = << >> THEN 0
    ELSE (IF log[1].category = c THEN log[1].duration ELSE 0) + LoggedFor(Tail(log), c)

\* The step is the exit through the menu.
IsMenuExitStep == pc = "menu" /\ pc' = "exited"

\* C19: on exit through the menu the open segment is closed with
\* change_current_daily_activity(None) before the final summary is produced:
\* at the final summary the current category and the segment start are both
\* None, the last segment, if at least 1 second long, is the last record of
\* the log, and the summary's totals are those of the logged segments alone,
\* with no live segment on top.
C19_ExitClosesBeforeSummary ==
    [][ IsMenuExitStep =>
          /\ current_daily_activity' = NoneCat
          /\ last_activity_start_time' = NoneTime
          /\ daily_activity_log' =
                IF now - last_activity_start_time >= 1 * UnitsPerSecond
                THEN Append(daily_activity_log,
                            [category |-> current_daily_activity,
                             start |-> last_activity_start_time,
                             end |-> now,
                             duration |-> now - last_activity_start_time])
                ELSE daily_activity_log
          /\ accumulated_times' # NoSummary
          /\ \A c \in DOMAIN accumulated_times' :
                accumulated_times'[c] = LoggedFor(daily_activity_log', c) ]_vars

\* The program was left through the menu after two category switches: the
\* segment that was open is the last record of the log and its time is in
\* the final summary.
C19_Witness ==
    /\ pc = "exited"
    /\ current_daily_activity = NoneCat
    /\ accumulated_times # NoSummary
    /\ Len(daily_activity_log) >= 3
    /\ daily_activity_log[Len(daily_activity_log)].end = now
    /\ accumulated_times[daily_activity_log[Len(daily_activity_log)].category] >=
          daily_activity_log[Len(daily_activity_log)].duration

\* The step is the abrupt exit: an interruption has escaped main.
IsAbruptExitStep == pc \in {"initial_setup", "menu_interrupted"} /\ pc' = "aborted"

\* C20: on the abrupt-interruption exit path a segment that is still open is
\* closed before the closing summary is shown and before the process ends:
\* the segment, if at least 1 second long, becomes the last record of the log,
\* no category and no segment start remain, and the closing summary is
\* computed from the log that holds it. With no open segment the log is left
\* as it is.
C20_AbruptExitClosesSegment ==
    [][ IsAbruptExitStep =>
          /\ current_daily_activity' = NoneCat
          /\ last_activity_start_time' = NoneTime
          /\ daily_activity_log' =
                IF /\ current_daily_activity # NoneCat
                   /\ last_activity_start_time # NoneTime
                   /\ now - last_activity_start_time >= 1 * UnitsPerSecond
                THEN Append(daily_activity_log,
                            [category |-> current_daily_activity,
                             start |-> last_activity_start_time,
                             end |-> now,
                             duration |-> now - last_activity_start_time])
                ELSE daily_activity_log
          /\ accumulated_times' # NoSummary
          /\ \A c \in DOMAIN accumulated_times' :
                accumulated_times'[c] = LoggedFor(daily_activity_log', c) ]_vars

\* An interruption escaped main while a segment of more than a second was
\* open: the segment is the last record of the log and in the closing summary.
C20_Witness ==
    /\ pc = "aborted"
    /\ last_op = [op |-> "change", arg |-> NoneCat]
    /\ current_daily_activity = NoneCat
    /\ last_activity_start_time = NoneTime
    /\ Len(daily_activity_log) >= 1
    /\ daily_activity_log[Len(daily_activity_log)].end = now
    /\ daily_activity_log[Len(daily_activity_log)].duration > 1 * UnitsPerSecond
    /\ accumulated_times[daily_activity_log[Len(daily_activity_log)].category] > 0

\* ---------------------------------------------------------------- C21
\* The operations main offers once a category is current.
MenuOps == {"change", "keep", "summary", "summary_return", "pomodoro_option",
            "config_accepted", "config_rejected", "simple_timer_option"}

IsRunEndStep == pc \in RunPcs \cup {"pomodoro_returned"} /\ pc' = "menu"

\* The counters of the run are the numbers of its phases that returned
\* 'completed', whatever the session totals were at the call.
RunCountsAreCompletedPhases ==
    /\ current_set_pomodoros = completed_phases["TRABAJO"]
    /\ current_set_short_breaks = completed_phases["DESCANSO CORTO"]
    /\ current_set_long_breaks = completed_phases["DESCANSO LARGO"]

\* C22 as stated: run_pomodoro returns the counts accrued in the run only,
\* and after every scheduler run each session total of main has grown by
\* exactly the number of phases of its kind that ended Completed in the run.
C22_TotalsGrowByCompletedPhases ==
    [][ /\ pc' = "pomodoro_returned" => RunCountsAreCompletedPhases'
        /\ IsRunEndStep =>
              /\ total_pomodoros_session' =
                    total_pomodoros_session + completed_phases["TRABAJO"]
              /\ total_short_breaks_session' =
                    total_short_breaks_session + completed_phases["DESCANSO CORTO"]
              /\ total_long_breaks_session' =
                    total_long_breaks_session + completed_phases["DESCANSO LARGO"]
      ]_vars

\* What holds: a run that returns (line 521, 553 or 563) returns the numbers
\* of its completed phases, and main adds them to the totals it had.
C22_ReturnedRunGrowsTotals ==
    [][ /\ pc' = "pomodoro_returned" => RunCountsAreCompletedPhases'
        /\ pc = "pomodoro_returned" =>
              /\ total_pomodoros_session' =
                    total_pomodoros_session + completed_phases["TRABAJO"]
              /\ total_short_breaks_session' =
                    total_short_breaks_session + completed_phases["DESCANSO CORTO"]
              /\ total_long_breaks_session' =
                    total_long_breaks_session + completed_phases["DESCANSO LARGO"]
      ]_vars

\* A run called with the session totals 3, 2, 1 completed its first work
\* phase and its short break; Ctrl+C arrived at the prompt after the break and
\* main is back at its menu with the totals still 3, 2, 1.
C22_Witness ==
    /\ pc = "menu"
    /\ last_op.op = "break_outcome_interrupted"
    /\ completed_phases["TRABAJO"] = 1
    /\ completed_phases["DESCANSO CORTO"] = 1
    /\ total_pomodoros_session = 3
    /\ total_short_breaks_session = 2
    /\ total_long_breaks_session = 1

\* A run called with the session totals 3, 2, 1 has returned one pomodoro and
\* one short break, and main's totals are 4, 3, 1.
C22_ReturnedWitness ==
    /\ pc = "menu"
    /\ last_op.op = "run_returned"
    /\ completed_phases["TRABAJO"] = 1
    /\ completed_phases["DESCANSO CORTO"] = 1
    /\ completed_phases["DESCANSO LARGO"] = 0
    /\ total_pomodoros_session = 4
    /\ total_short_breaks_session = 3
    /\ total_long_breaks_session = 1

DefaultCategories == {DEFAULT_DAILY_CATEGORIES[i] : i \in DOMAIN DEFAULT_DAILY_CATEGORIES}

\* C24: whenever a summary has been computed, its accumulated time of every
\* category is the sum of the durations of that category's logged segments,
\* plus the live duration of the open segment for the current category of a
\* summary shown from the menu; the final summaries (after the exit option or
\* an interruption closed the last segment) have no live part, so every
\* logged segment counts exactly once.
C24_SummaryIsLoggedPlusLive ==
    accumulated_times # NoSummary =>
        /\ pc \in {"summary_shown", "exited", "aborted"}
        /\ DOMAIN accumulated_times = DefaultCategories
        /\ \A c \in DefaultCategories :
              accumulated_times[c] =
                 LoggedFor(daily_activity_log, c)
                 + (IF c = current_daily_activity THEN LiveDuration ELSE 0)
        /\ pc \in {"exited", "aborted"} =>
              /\ current_daily_activity = NoneCat
              /\ \A c \in DefaultCategories :
                    accumulated_times[c] = LoggedFor(daily_activity_log, c)

\* A summary is shown from the menu while the category of the first logged
\* segment is current again, with a running segment, after a segment of
\* another category: its accumulated time is the logged segment plus the live
\* time, that of the other category is its one segment.
C24_Witness ==
    /\ pc = "summary_shown"
    /\ Len(daily_activity_log) = 2
    /\ daily_activity_log[1].category = current_daily_activity
    /\ daily_activity_log[2].category # current_daily_activity
    /\ LiveDuration > 0
    /\ accumulated_times[current_daily_activity] =
          daily_activity_log[1].duration + LiveDuration
    /\ accumulated_times[daily_activity_log[2].category] = daily_activity_log[2].duration

\* ---------------------------------------------------------------- C25
\* C25: a call assign_time_to_specific_category(minutes, subcategory) makes
\* the subcategory's total its previous total plus exactly minutes, or
\* creates the key with the value minutes when the subcategory was unknown;
\* every other subcategory keeps its total, no other key appears, and the
\* segment log, the current category and the segment start are unchanged.
C25_AssignAddsToOneSubcategory ==
    [][ last_op'.op = "assign" =>
          LET sub == last_op'.arg
              minutes == last_op'.minutes
          IN /\ DOMAIN total_specific_category_times' =
                   DOMAIN total_specific_category_times \cup {sub}
             /\ total_specific_category_times'[sub] =
                   IF sub \in DOMAIN total_specific_category_times
                   THEN total_specific_category_times[sub] + minutes
                   ELSE minutes
             /\ \A k \in DOMAIN total_specific_category_times \ {sub} :
                   total_specific_category_times'[k] = total_specific_category_times[k]
             /\ UNCHANGED << daily_activity_log, current_daily_activity,
                             last_activity_start_time >>
      ]_vars

\* An unknown subcategory was credited 25 minutes and then 90, after a known
\* one was credited 25: the new key holds 115, the known one 25, the others 0.
C25_Witness ==
    /\ last_op = [op |-> "assign", arg |-> "Dibujo", minutes |-> 90]
    /\ DOMAIN total_specific_category_times = SUBCATEGORIES \cup {"Dibujo"}
    /\ total_specific_category_times["Dibujo"] = 115
    /\ total_specific_category_times["Programación"] = 25
    /\ \A k \in SUBCATEGORIES \ {"Programación"} : total_specific_category_times[k] = 0
    /\ Len(daily_activity_log) = 1
    /\ current_daily_activity = "Estudio"

\* ---------------------------------------------------------------- C26
\* The typed text is a positive integer.
IsPositiveIntegerText(text) == text \in DOMAIN IntegerTexts /\ IntegerTexts[text] > 0

\* All four typed texts are positive integers.
IsValidTypedConfig(typed) == \A k \in 1..4 : IsPositiveIntegerText(typed[k])

\* C26: run_pomodoro is called only with a work duration, a short-break
\* duration, a long-break duration and a cycle count that are positive
\* integers. A typed configuration with a text that is not an integer or with
\* a number that is not positive is rejected: main stays at the configuration
\* prompts and asks again, and the segment log, the current category, the
\* segment start, the subcategory totals and the session counters are as they
\* were; a typed configuration of four positive integers is the one the
\* scheduler is called with.
C26_OnlyPositiveIntegerConfigs ==
    [][ /\ pc' = "pomodoro_call" =>
              /\ cfg'.work_minutes \in Nat \ {0}
              /\ cfg'.short_break_minutes \in Nat \ {0}
              /\ cfg'.long_break_minutes \in Nat \ {0}
              /\ cfg'.num_cycles \in Nat \ {0}
        /\ \A typed \in TypedConfigs :
              ConfigEntry(typed) =>
                 IF IsValidTypedConfig(typed)
                 THEN /\ pc' = "pomodoro_call"
                      /\ cfg' = [work_minutes        |-> IntegerTexts[typed[1]],
                                 short_break_minutes |-> IntegerTexts[typed[2]],
                                 long_break_minutes  |-> IntegerTexts[typed[3]],
                                 num_cycles          |-> IntegerTexts[typed[4]]]
                 ELSE pc' = "config_prompt"
        /\ pc = "config_prompt" =>
              UNCHANGED << ledgerVars, total_specific_category_times, sessionVars >>
      ]_vars

\* After some segments were logged, a configuration whose second text is
\* not an integer was rejected: the work duration typed before it is kept in
\* main's local, the others are the defaults, and main asks again.
C26_Witness ==
    /\ pc = "config_prompt"
    /\ last_op.op = "config_rejected"
    /\ cfg = [DefaultConfig EXCEPT !.work_minutes = 1]
    /\ Len(daily_activity_log) > 0

\* A configuration with a non-positive cycle count was rejected and main
\* asks again.
C26_NonPositiveWitness ==
    /\ pc = "config_prompt"
    /\ last_op.op = "config_rejected"
    /\ cfg.num_cycles = -2
    /\ cfg.work_minutes = 1

\* A typed configuration was accepted after a rejected one.
C26_AcceptedWitness ==
    /\ pc = "pomodoro_call"
    /\ last_op.op = "config_accepted"
    /\ cfg = [work_minutes |-> 1, short_break_minutes |-> 1,
              long_break_minutes |-> 2, num_cycles |-> 2]

\* ---------------------------------------------------------------- C27
\* The step is the return of a phase whose loop has ended, with the
\* notification sound failing.
IsFailedNotificationStep ==
    last_op'.op = "complete" /\ last_op'.sound = "failed"

\* The phase has just returned after its notification failed.
AfterFailedNotification ==
    pc = "phase_returned" /\ last_op.op = "complete" /\ last_op.sound = "failed"

\* C27: when the end-of-phase notification fails, the phase still returns
\* 'completed' with an elapsed time equal to the configured duration, and no
\* counter or total is touched by the failure; the scheduler then treats the
\* outcome as any Completed one: Enter after a work phase counts one pomodoro
\* and starts the break of the cycle, Enter after a break counts the break of
\* its kind and starts the next cycle or returns after the last.
C27_NotificationFailureKeepsResult ==
    [][ /\ IsFailedNotificationStep =>
              /\ outcome' = "completed"
              /\ elapsed_seconds' = duration_seconds
              /\ pc' = "phase_returned"
              /\ UNCHANGED << schedVars, sessionVars, total_specific_category_times,
                              ledgerVars >>
        /\ (AfterFailedNotification /\ last_op'.op = "work_outcome") =>
              /\ current_set_pomodoros' = current_set_pomodoros + 1
              /\ UNCHANGED << current_set_short_breaks, current_set_long_breaks >>
              /\ pc' = "countdown"
              /\ phase_name' \in {"DESCANSO CORTO", "DESCANSO LARGO"}
              /\ cycle_i' = cycle_i
        /\ (AfterFailedNotification /\ last_op'.op = "break_outcome") =>
              /\ current_set_short_breaks' + current_set_long_breaks' =
                    current_set_short_breaks + current_set_long_breaks + 1
              /\ current_set_pomodoros' = current_set_pomodoros
              /\ IF cycle_i < cfg.num_cycles
                 THEN pc' = "countdown" /\ phase_name' = "TRABAJO" /\ cycle_i' = cycle_i + 1
                 ELSE pc' = "pomodoro_returned"
      ]_vars

\* A work phase that was paused for a tick has just returned 'completed'
\* with its full duration after its notification failed.
C27_Witness ==
    /\ AfterFailedNotification
    /\ phase_name = "TRABAJO"
    /\ outcome = "completed"
    /\ elapsed_seconds = duration_seconds
    /\ n_paused_ticks > 0

\* ---------------------------------------------------------------- C28
\* The phase being counted down, or just returned, is a break.
IsBreakName(name) == name \in {"DESCANSO CORTO", "DESCANSO LARGO"}

\* The step is an iteration of a break's loop in which 'q' was read.
IsBreakQStep ==
    /\ pc = "countdown"
    /\ IsBreakName(phase_name)
    /\ last_op' = [op |-> "tick", arg |-> "q"]

\* C28: a break phase never asks the early-termination question and never
\* returns EarlyEndRegistered or EarlyEndDiscarded; an iteration of a break in
\* which the early-termination key is read is an ordinary tick: it lasts its
\* ten slices, the remaining-time counter goes down by one unless the phase
\* is paused, the pause flag keeps its value and the loop goes on.
C28_EarlyEndOnlyInWork ==
    [][ /\ IsBreakName(phase_name) =>
              (pc # "early_end_prompt" /\ pc' # "early_end_prompt")
        /\ (IsBreakName(phase_name') /\ pc' = "phase_returned") =>
              outcome' \notin EarlyEndOutcomes
        /\ IsBreakQStep =>
              /\ pc' = "countdown"
              /\ now' = now + SlicesPerTick
              /\ is_paused' = is_paused
              /\ current_seconds' =
                    (IF is_paused THEN current_seconds ELSE current_seconds - 1)
              /\ UNCHANGED << elapsed_seconds, outcome, phase_name, duration_seconds,
                              start_time_phase >>
      ]_vars

\* The early-termination key was read in the first tick of a long break,
\* which goes on one second further.
C28_Witness ==
    /\ pc = "countdown"
    /\ phase_name = "DESCANSO LARGO"
    /\ last_op = [op |-> "tick", arg |-> "q"]
    /\ current_seconds = duration_seconds - 1
    /\ ~is_paused

\* The early-termination key was read in a paused tick of a short break: the
\* counter and the flag are as before.
C28_PausedWitness ==
    /\ pc = "countdown"
    /\ phase_name = "DESCANSO CORTO"
    /\ last_op = [op |-> "tick", arg |-> "q"]
    /\ is_paused
    /\ n_paused_ticks > 0

\* ---------------------------------------------------------------- C29
\* The whole seconds of clock time between two readings of the clock.
WallClockSeconds(from, to) == (to - from) \div UnitsPerSecond

\* The seconds the countdown has counted off.
CountedOffSeconds == duration_seconds - current_seconds

\* C29: when a work phase is ended early, the elapsed time it returns is the
\* clock time, in whole seconds, between the start of the phase and the
\* reading of the early-termination key, whatever the remaining-time counter
\* says; when a phase is interrupted from outside, it is the clock time
\* between the start of the phase and the answer to the handler's question.
\* Time spent paused is part of both.
C29_ElapsedIsWallClock ==
    [][ /\ (pc' = "phase_returned" /\ outcome' \in EarlyEndOutcomes) =>
              /\ IsWorkPhase(phase_name)
              /\ measured_at' <= now'
              /\ elapsed_seconds' = WallClockSeconds(start_time_phase, measured_at')
        /\ (pc = "countdown" /\ pc' = "early_end_prompt") =>
              /\ measured_at' = now'
              /\ elapsed_seconds' = WallClockSeconds(start_time_phase, now')
        /\ pc = "early_end_prompt" => UNCHANGED << elapsed_seconds, measured_at >>
        /\ (pc' = "phase_returned" /\ outcome' \in {"user_skip_phase", "user_cancelled_all"}) =>
              /\ pc = "interrupt_prompt"
              /\ measured_at' = now' - UnitsPerSecond
              /\ elapsed_seconds' = WallClockSeconds(start_time_phase, measured_at')
      ]_vars

\* A work phase that was paused for a whole tick was ended early and its time
\* registered: the elapsed time returned is larger than what the countdown
\* has counted off.
C29_Witness ==
    /\ pc = "phase_returned"
    /\ outcome = "early_end_registered"
    /\ phase_name = "TRABAJO"
    /\ n_paused_ticks > 0
    /\ elapsed_seconds > CountedOffSeconds
    /\ elapsed_seconds = WallClockSeconds(start_time_phase, measured_at)

\* A paused phase was interrupted and skipped: the elapsed time returned is
\* larger than what the countdown has counted off.
C29_InterruptWitness ==
    /\ pc = "phase_returned"
    /\ outcome = "user_skip_phase"
    /\ n_paused_ticks > 0
    /\ elapsed_seconds > CountedOffSeconds

\* ---------------------------------------------------------------- C30
\* What the outcome of the break that has returned adds to the counter of
\* the breaks called name.
BreakIncrement(name) ==
    IF outcome = "completed" /\ phase_name = name THEN 1 ELSE 0

\* C30: from the start of a break phase to the processing of its outcome, the
\* pomodoro counter, the subcategory totals and main's session totals do not
\* change, and the break counters do not change while the phase runs. When
\* the outcome is processed, Completed adds 1 to the counter of the break's
\* kind and nothing to the other, and SkipPhase and CancelledAll add nothing;
\* after SkipPhase the run continues with the work phase of the next cycle,
\* or returns when the break was that of the last cycle.
C30_BreakChangesOnlyItsCounter ==
    [][ InBreakPhase =>
          /\ UNCHANGED << current_set_pomodoros, total_specific_category_times,
                          sessionVars >>
          /\ pc # "phase_returned" =>
                UNCHANGED << current_set_short_breaks, current_set_long_breaks >>
          /\ pc = "phase_returned" =>
                /\ current_set_short_breaks' =
                      current_set_short_breaks + BreakIncrement("DESCANSO CORTO")
                /\ current_set_long_breaks' =
                      current_set_long_breaks + BreakIncrement("DESCANSO LARGO")
          /\ (pc = "phase_returned" /\ outcome = "user_skip_phase"
                /\ last_op'.op = "break_outcome") =>
                IF cycle_i < cfg.num_cycles
                THEN /\ pc' = "countdown"
                     /\ phase_name' = "TRABAJO"
                     /\ cycle_i' = cycle_i + 1
                ELSE pc' = "pomodoro_returned"
      ]_vars

\* The short break of cycle 1 was skipped after a completed and credited work
\* phase: no break is counted, the pomodoro and its minutes are as they were,
\* and the work phase of cycle 2 has started.
C30_Witness ==
    /\ pc = "countdown"
    /\ phase_name = "TRABAJO"
    /\ cycle_i = 2
    /\ last_op = [op |-> "break_outcome", arg |-> "user_skip_phase"]
    /\ current_set_pomodoros = 1
    /\ current_set_short_breaks = 0
    /\ current_set_long_breaks = 0
    /\ total_specific_category_times["Programación"] = cfg.work_minutes

\* The long break of the last cycle was completed and counted after the
\* short break of cycle 1 was: one of each, two pomodoros.
C30_CompletedWitness ==
    /\ pc = "pomodoro_returned"
    /\ last_op = [op |-> "break_outcome", arg |-> "completed"]
    /\ phase_name = "DESCANSO LARGO"
    /\ current_set_pomodoros = 2
    /\ current_set_short_breaks = 1
    /\ current_set_long_breaks = 1

\* ---------------------------------------------------------------- C31
\* The step in which a runtime fault is raised inside the countdown tick loop.
IsTickLoopFault == pc = "countdown" /\ last_op'.op = "fault"

\* C31 as stated: a runtime fault (not an interruption) raised inside the
\* countdown tick loop is not caught by the orchestrator's fault handler and
\* ends the process through the abrupt-interruption path, instead of bringing
\* the user back to the main menu.
C31_FaultEndsThroughAbruptPath ==
    [][IsTickLoopFault => (pc' = "aborted" /\ pc' # "menu")]_vars

\* C31, amended: a runtime fault raised inside the countdown tick loop is
\* caught by the orchestrator's fault handler: the menu is shown again, the
\* ledger and the subcategory totals are as they were, and the counters of
\* the interrupted run are not added to the session totals.
C31_FaultReturnsToMenu ==
    [][IsTickLoopFault =>
          /\ pc' = "menu"
          /\ UNCHANGED << ledgerVars, total_specific_category_times, sessionVars >>]_vars

\* The menu after a fault in a break phase that followed a completed work
\* phase of the run: the completed pomodoro is in the run's counter only.
C31_Witness ==
    /\ pc = "menu"
    /\ last_op.op = "fault"
    /\ ~IsWorkPhase(last_op.arg)
    /\ current_set_pomodoros = 1
    /\ total_pomodoros_session \in {0, 3}

\* ---------------------------------------------------------------- C32
\* The categories for which the menu offers the two timers.
TimerCategories == {"Estudio", "Trabajo", "Lectura"}

\* The menu as the user reads it: what each number stands for, with and
\* without the timer options.
OfferedWithTimers ==
    ("1" :> "pomodoro") @@ ("2" :> "simple_timer") @@ ("3" :> "specific_summary") @@
    ("4" :> "change") @@ ("5" :> "refresh") @@ ("6" :> "daily_summary") @@ ("7" :> "exit")

OfferedWithoutTimers ==
    ("1" :> "specific_summary") @@ ("2" :> "change") @@ ("3" :> "refresh") @@
    ("4" :> "daily_summary") @@ ("5" :> "exit")

OfferedNow ==
    IF current_daily_activity \in TimerCategories THEN OfferedWithTimers
    ELSE OfferedWithoutTimers

\* The option that a step from the menu has carried out.
OptionCarriedOut ==
    IF last_op'.op = "pomodoro_option" THEN "pomodoro"
    ELSE IF last_op'.op = "simple_timer_option" THEN "simple_timer"
    ELSE IF last_op'.op = "specific_summary" THEN "specific_summary"
    ELSE IF last_op'.op = "refresh" THEN "refresh"
    ELSE IF last_op'.op = "summary" THEN "daily_summary"
    ELSE IF pc' = "exited" THEN "exit"
    ELSE IF last_op'.op \in {"change", "keep"} THEN "change"
    ELSE "none"

\* A step in which a text typed at the menu prompt is handled.
IsMenuPromptStep == pc = "menu" /\ last_op'.op \notin {"clock", "menu_interrupt"}

C32_NotOfferedWitness ==
    /\ pc = "menu"
    /\ menu_choice = "1"
    /\ last_op.op = "specific_summary"
    /\ current_daily_activity = "Desayuno"

\* ---------------------------------------------------------------- C33
\* The positions of main while a timer option is being carried out.
TimerRunPcs ==
    RunPcs \cup {"pomodoro_returned", "simple_timer_call", "simple_timer",
                 "simple_prompt", "simple_returned"}

InTimerRun == pc \in TimerRunPcs

\* C33: running the scheduler or the up-timer never changes the segment log,
\* the current daily category or the current segment start, whatever the
\* outcomes of its phases: every step of a run, its return to the menu
\* included, leaves the three as they were, so that the time of the run
\* belongs to the segment that was open when the run started.
C33_TimerRunKeepsLedger ==
    [][InTimerRun =>
          /\ UNCHANGED << daily_activity_log, current_daily_activity,
                          last_activity_start_time >>
          /\ pc' = "menu" => LiveDuration' = now' - first_set_time']_vars

\* Back at the menu after a scheduler run in which a work phase was completed
\* and a later phase was skipped or cancelled.
C33_Witness ==
    /\ pc = "menu"
    /\ last_op.op = "run_returned"
    /\ current_set_pomodoros >= 1
    /\ outcome \in {"user_skip_phase", "user_cancelled_all"}
    /\ now > last_activity_start_time

\* Back at the menu after an up-timer run whose minute was kept.
C33_UpTimerWitness ==
    /\ pc = "menu"
    /\ last_op.op = "simple_returned"
    /\ elapsed_minutes_simple >= 1
    /\ now > last_activity_start_time

\* ---------------------------------------------------------------- C34
\* main is about to call, or is configuring the call of, a timer.
TimerBeingStarted == pc \in {"config_prompt", "pomodoro_call", "simple_timer_call"}

\* Elapsed times of a kept early end of at least one minute, in seconds.
KeptEarlyEndSeconds == {60, 61, 119, 120, 5399}

\* C34: the orchestrator starts the scheduler or the up-timer only while the
\* current daily category has a subcategory mapping (Estudio, Trabajo or
\* Lectura), so that every Completed work phase and every kept early end of
\* at least one minute of the run leads to a subcategory prompt that has
\* subcategories to offer.
C34_TimersOnlyWithSubcategories ==
    TimerBeingStarted =>
       /\ current_daily_activity \in TimerCategories
       /\ PromptsSubcategory("completed", 0, daily_activity_name)
       /\ \A e \in KeptEarlyEndSeconds :
             PromptsSubcategory("early_end_registered", e, daily_activity_name)
       /\ prompt_specific_work_category(daily_activity_name, 1)
             \in SUBCATEGORIES

\* The scheduler is about to be called in Trabajo, the second category of
\* the session.
C34_Witness ==
    /\ pc = "pomodoro_call"
    /\ current_daily_activity = "Trabajo"
    /\ Len(daily_activity_log) >= 1

\* The up-timer is about to be called in Estudio.
C34_UpTimerWitness ==
    /\ pc = "simple_timer_call"
    /\ current_daily_activity = "Estudio"
    /\ last_op.op = "simple_timer_option"

\* ---------------------------------------------------------------- C35
\* The subcategories listed under a daily category (lines 108-112).
SubcategoriesOf(category) ==
    IF category = "Estudio" THEN {"Programación", "Matemáticas"}
    ELSE IF category = "Trabajo" THEN {"Inclub", "Vegenanito"}
    ELSE IF category = "Lectura" THEN {"Manga", "Libro"}
    ELSE {}

\* The subcategories whose total a step has raised or created.
CreditedByStep ==
    { k \in DOMAIN total_specific_category_times' :
         \/ k \notin DOMAIN total_specific_category_times
         \/ total_specific_category_times'[k] > total_specific_category_times[k] }

\* C35: minutes are only ever credited to a subcategory that belongs to the
\* daily category that is current at the time of crediting: no step of a
\* scheduler or up-timer run raises the total of a subcategory of another
\* daily category.
C35_CreditOnlyToCurrentCategory ==
    [][CreditedByStep \subseteq SubcategoriesOf(current_daily_activity)]_vars

\* A scheduler run in Estudio has credited Matemáticas.
C35_Witness ==
    /\ current_daily_activity = "Estudio"
    /\ cycle_i >= 1
    /\ total_specific_category_times["Matemáticas"] >= 1
    /\ total_specific_category_times["Inclub"] = 0

\* An up-timer run in Lectura has credited Libro.
C35_UpTimerWitness ==
    /\ current_daily_activity = "Lectura"
    /\ last_op.op = "simple_keep"
    /\ total_specific_category_times["Libro"] >= 1

\* ---------------------------------------------------------------- C36
\* The break phases that the run has started.
BreaksStarted == started_phases["DESCANSO CORTO"] + started_phases["DESCANSO LARGO"]

\* The work phase of the last cycle was skipped; run_pomodoro's locals keep
\* the phase and its outcome until the run is over.
LastWorkSkipped ==
    /\ pc \in RunPcs \cup {"pomodoro_returned", "menu"}
    /\ cycle_i = cfg.num_cycles
    /\ IsWorkPhase(phase_name)
    /\ outcome = "user_skip_phase"

\* C36: in a run of N cycles and at every point of it, pomodoros completed
\* <= N, long breaks completed <= 1, short breaks completed <= N - 1, at most
\* N work phases and at most N break phases are started, and when the work
\* phase of the last cycle is skipped no long break is run at all.
C36_RunCountersBounded ==
    /\ current_set_pomodoros <= cfg.num_cycles
    /\ current_set_long_breaks <= 1
    /\ current_set_short_breaks <= cfg.num_cycles - 1
    /\ started_phases["TRABAJO"] <= cfg.num_cycles
    /\ BreaksStarted <= cfg.num_cycles
    /\ LastWorkSkipped => started_phases["DESCANSO LARGO"] = 0

\* A run of two cycles that has reached every bound.
C36_Witness ==
    /\ pc = "pomodoro_returned"
    /\ cfg.num_cycles = 2
    /\ current_set_pomodoros = 2
    /\ current_set_short_breaks = 1
    /\ current_set_long_breaks = 1
    /\ started_phases["TRABAJO"] = 2
    /\ BreaksStarted = 2

\* A run of two cycles whose second work phase was skipped after a short
\* break had been run.
C36_SkippedWitness ==
    /\ pc = "pomodoro_returned"
    /\ LastWorkSkipped
    /\ cfg.num_cycles = 2
    /\ started_phases["DESCANSO CORTO"] = 1

\* ---------------------------------------------------------------- C37
\* main is inside its loop: at the menu, in one of its options or in the
\* pause of its interruption handler.
InMainLoop ==
    pc \in {"menu", "summary_shown", "config_prompt", "pomodoro_call",
            "simple_timer_call", "menu_interrupted"}

\* Exactly one segment is open.
OneSegmentOpen == current_daily_activity # NoneCat /\ last_activity_start_time # NoneTime

SessionState ==
    << daily_activity_log, current_daily_activity, last_activity_start_time,
       total_specific_category_times, total_pomodoros_session,
       total_short_breaks_session, total_long_breaks_session >>

\* An interruption arrives: at a prompt of the loop, or during the pause of
\* the handler of an earlier one.
IsMenuLoopInterruption ==
    \/ last_op'.op = "menu_interrupt"
    \/ pc = "menu_interrupted" /\ pc' = "aborted"

\* C38 as stated: an interruption received while the orchestrator is in its
\* main-menu loop does not end the program: the segment log, the current
\* category, the segment start, the subcategory totals and the session totals
\* are unchanged and the loop goes on to show the menu again.
C38_InterruptionNeverEndsProgram ==
    [][IsMenuLoopInterruption =>
          /\ pc' \in {"menu_interrupted", "menu"}
          /\ UNCHANGED SessionState]_vars

\* C38, amended: an interruption received at a prompt of the main-menu loop
\* does not end the program: the handler changes none of the session state
\* and, its pause of one second over, the menu is shown again with the state
\* as it was; the program ends abruptly from inside the loop only when a
\* further interruption arrives during that pause.
C38_InterruptionAtPromptRecovered ==
    [][/\ last_op'.op = "menu_interrupt" =>
             (pc' = "menu_interrupted" /\ UNCHANGED SessionState)
       /\ (pc = "menu_interrupted" /\ pc' # "aborted") =>
             (pc' = "menu" /\ UNCHANGED SessionState)
       /\ pc' = "aborted" => pc \in {"initial_setup", "menu_interrupted"}]_vars

\* The menu shown again after an interruption, a segment being logged and
\* another one open.
C38_Witness ==
    /\ pc = "menu"
    /\ last_op.op = "menu_resumed"
    /\ Len(daily_activity_log) >= 1
    /\ current_daily_activity # NoneCat
    /\ last_activity_start_time < now

\* The abrupt end reached from the handler's pause.
C38_AbruptWitness ==
    /\ pc = "aborted"
    /\ Len(daily_activity_log) >= 2
    /\ current_daily_activity = NoneCat

\* ---------------------------------------------------------------- C39
\* The step processes a Completed work phase or a kept early end of one.
IsWorkCreditStep ==
    /\ pc = "phase_returned"
    /\ phase_name = "TRABAJO"
    /\ outcome \in {"completed", "early_end_registered"}
    /\ last_op'.op \in {"work_outcome", "work_outcome_interrupted"}

\* The step keeps the time of an up-timer run.
IsUpTimerKeepStep == pc = "simple_prompt" /\ last_op'.op = "simple_keep"

\* C39: every subcategory minute total is non-negative and never decreases
\* during a session, and it changes only on three events: a Completed work
\* phase, a kept early end of a work phase, or a kept up-timer run.
C39_TotalsOnlyGrowOnCredit ==
    [][/\ DOMAIN total_specific_category_times' = DOMAIN total_specific_category_times
       /\ \A k \in DOMAIN total_specific_category_times :
             /\ total_specific_category_times[k] >= 0
             /\ total_specific_category_times'[k] >= total_specific_category_times[k]
       /\ total_specific_category_times' # total_specific_category_times =>
             (IsWorkCreditStep \/ IsUpTimerKeepStep)]_vars

\* Credit from a kept early end: no work phase of the run was completed.
C39_Witness ==
    /\ last_op.op = "work_outcome"
    /\ completed_phases["TRABAJO"] = 0
    /\ total_specific_category_times["Programación"] >= 1

\* Credit from a kept up-timer run on top of earlier credit.
C39_UpTimerWitness ==
    /\ last_op.op = "simple_keep"
    /\ total_specific_category_times["Matemáticas"] > 25

\* ---------------------------------------------------------------- C40
\* The countdown is paused and the modelled user has no Enter left to resume
\* it: it is left paused forever.
LeftPaused == pc = "countdown" /\ is_paused /\ n_toggles >= MaxToggles

\* countdown_period has returned an outcome to run_pomodoro.
PhaseYieldedOutcome ==
    /\ pc = "phase_returned"
    /\ outcome \in {"completed", "early_end_registered", "early_end_not_registered",
                    "user_skip_phase", "user_cancelled_all"}

\* The up-timer's loop is left by an interruption only.
UpTimerEndsByInterruptOnly ==
    [][(pc = "simple_timer" /\ pc' # "simple_timer") =>
          (pc' = "simple_prompt" /\ last_op'.op = "simple_interrupt")]_vars

C40_UpTimerWitness ==
    /\ pc = "simple_timer"
    /\ current_elapsed_seconds = MaxUpSeconds
    /\ elapsed_minutes_simple = NotReturned

====
